---- MODULE Spec2Model ----
(***************************************************************************)
(* A model of the FPL combination analyser: the on-disk cache store        *)
(* (player_combination_analysis.py, save/load), the operator's cache tool  *)
(* (cache_manager.py), the interactive session (interactive_analysis),     *)
(* the web app's load_league (webapp/app.py) and the batch fetch           *)
(* scheduler (fetch_manager_squads_batch / get_manager_squad_safe).        *)
(***************************************************************************)
EXTENDS Integers, Sequences, FiniteSets, TLC

\* ------------------------------------------------------------------ bounds

\* The clock runs over 0..MaxTime (hours).
MaxTime == 2
\* Manager (member) ids are 1..NumManagers.
NumManagers == 3

\* ------------------------------------------------------- program constants

\* load_manager_squads_cache: timedelta(hours=1)
FreshnessHours == 1

\* --------------------------------------------------------------- the world

\* Python's None, for a value that is otherwise a record.
None == [state |-> "none"]
\* A file that does not exist.
Absent == [state |-> "absent"]
\* A file that exists but holds no complete document: open(.., 'w') has
\* truncated it, or the dump stopped part way.
Partial == [state |-> "partial"]
\* analyzer.league_data is None, or holds the list of the 'entry' ids of
\* ['standings']['results']: the empty set, or the set of that one list.
NoLeague == {}
League(results) == {results}
Results(league) == CHOOSE r \in league : TRUE
\* analyzer.current_league_id is None.
NoLeagueId == 0
\* No (league_id, gameweek) yet.
NoKey == <<0, 0>>

Leagues == {1, 2}
Gameweeks == {1}
Managers == 1..NumManagers
\* One cache record per (league_id, gameweek): get_cache_filename.
Keys == Leagues \X Gameweeks

\* The roster payloads the remote API can return for a manager: the list of
\* the 'element' ids of its picks.
Rosters == {<<10, 20>>, <<10, 30>>}

\* The league's full current member list at the remote API, in standings
\* order.  League 1 holds every manager, league 2 the last two.
LeagueMembers(l) ==
    IF l = 1 THEN [i \in 1..NumManagers |-> i]
             ELSE [i \in 1..2 |-> NumManagers - 2 + i]

Range(s) == {s[i] : i \in DOMAIN s}

\* The empty dict.
EmptySquads == [m \in {} |-> <<>>]

VARIABLES
    now,                \* datetime.now(), in hours
    cache_file,         \* fpl_cache/league_<l>_gw_<g>.pkl, per key
    info_file,          \* fpl_cache/league_<l>_gw_<g>_info.json, per key
    cache_dir,          \* os.path.exists(analyzer.cache_dir)
    manager_squads,     \* analyzer.manager_squads: manager id -> roster
    league_data,        \* analyzer.league_data: NoLeague or League(results)
    current_league_id,  \* analyzer.current_league_id
    save_pc,            \* position inside save_manager_squads_cache
    save_key,           \* its (league_id, gameweek)
    cache_info,         \* its local cache_info, built before the info write
    save_ret,           \* its last return value
    save_retry,         \* history: the call follows one that returned False
    save_prev,          \* history: the key's record when the save began
    last_load,          \* history: the analyzer's last call, when it was a
                        \* load_manager_squads_cache: its key, whether a
                        \* stale record was accepted, what it returned
    last_saved,         \* history: per key, the roster mapping and league
                        \* snapshot handed to a save that returned True,
                        \* until the key's files change again
    op_pc,              \* the operator tool (cache_manager.py): its position
    op_key,             \* and the cache it selected
    op_answer,          \* and the answer to its last (y/n) question
    pc,                 \* interactive_analysis: its position
    league_id,          \* its local league_id
    cache_loaded,       \* its local cache_loaded
    manager_ids,        \* its local manager_ids
    skip_fetch,         \* its local skip_fetch
    cached_manager_ids, \* its local cached_manager_ids (empty until set)
    missing_defined,    \* 'missing_manager_ids' in locals()
    new_squads,         \* its local new_squads
    decision,           \* history: the branch its coverage check took
    web_pc,             \* the web app's load_league: its position
    web_league_id,      \* its local league_id
    web_response,       \* the response of the last request
    listed,             \* the cache_files of the last cache_info response
    f_pc,               \* fetch_manager_squads_batch: its position
    f_ids,              \* its argument manager_ids
    f_i,                \* the start index i of the current batch
    all_squads,         \* its local all_squads
    tasks,              \* the futures of the current batch, by position
    requests,           \* history: HTTP requests made, per manager
    f_got,              \* history: managers a request returned a roster for
    q_pc,               \* the query loop of interactive_analysis: its position
    player_names,       \* its local player_names
    results,            \* what its find_player_combinations call came to
    analysis,           \* what the web app's analyze_combination came to
    speed,              \* the speed mode chosen in interactive_analysis
    config,             \* the settings fetch_manager_squads_batch ran with
    reqs,               \* the web app's request threads inside load_league
    standings           \* the web app's league_standings_cache and cache_timestamps

diskVars == <<cache_file, info_file, cache_dir>>
analyzerVars == <<manager_squads, league_data, current_league_id>>
saveVars == <<save_pc, save_key, cache_info, save_ret, save_prev, save_retry>>
loadVars == <<last_load>>
opVars == <<op_pc, op_key, op_answer>>
cliVars == <<pc, league_id, cache_loaded, manager_ids, skip_fetch,
             cached_manager_ids, missing_defined, new_squads, decision>>
webVars == <<web_pc, web_league_id, web_response, listed>>
\* The callers of the analyzer: each specification runs one of them.
fetchVars == <<f_pc, f_ids, f_i, all_squads, tasks, requests, f_got>>
queryVars == <<q_pc, player_names, results, analysis>>
speedVars == <<speed, config>>
requestVars == <<reqs, standings>>
procVars == <<cliVars, webVars, fetchVars, queryVars, speedVars, requestVars>>
otherThanCli == <<webVars, fetchVars, queryVars, speedVars, requestVars>>
otherThanWeb == <<cliVars, fetchVars, queryVars, speedVars, requestVars>>
otherThanFetch == <<cliVars, webVars, queryVars, speedVars, requestVars>>
vars == <<now, diskVars, analyzerVars, saveVars, loadVars, last_saved, opVars,
          procVars>>

\* ------------------------------------------------------------- cache files

\* A pickle that loses the league snapshot.
PickleSquadsOnly(squads, league) ==
    [state |-> "pickle", format |-> "new", manager_squads |-> squads,
     league_data |-> {}]

\* pickle.dump(cache_data): the new format holds both fields.
PickleNew(squads, league) ==
    [state |-> "pickle", format |-> "new", manager_squads |-> squads,
     league_data |-> league]
\* A record written before league_data was added: the bare mapping.
PickleLegacy(squads) ==
    [state |-> "pickle", format |-> "legacy", manager_squads |-> squads]

\* len(self.league_data['standings']['results']) if self.league_data else 0
TotalManagers(league) ==
    IF league = NoLeague THEN 0 ELSE Len(Results(league))

\* The cache_info dict of save_manager_squads_cache.
CacheInfo(key, squads, league, at) ==
    [state |-> "json", league_id |-> key[1], gameweek |-> key[2],
     manager_count |-> Cardinality(DOMAIN squads),
     cached_at |-> at,
     total_managers_in_league |-> TotalManagers(league)]

Readable(f) == f.state \notin {"absent", "partial"}

\* cache_exists: os.path.exists of both files.
cache_exists(key) == cache_file[key] # Absent /\ info_file[key] # Absent

\* What a reader of the key observes on disk.
DiskRecord(key) == [cache |-> cache_file[key], info |-> info_file[key]]

\* A freshness test that turns a record stale on the hour.
IsStaleOnTheHour(info, t) == t - info.cached_at >= FreshnessHours

\* datetime.now() - cached_time > timedelta(hours=1)
IsStale(info, t) == t - info.cached_at > FreshnessHours

\* isinstance(cached_data, dict) and 'manager_squads' in cached_data
IsNewFormat(cached_data) == cached_data.format = "new"

\* ------------------------------------------ save_manager_squads_cache, by step

\* The call: the file names are computed and cache_data is built.
SaveBegin(key) ==
    /\ save_pc = "idle"
    /\ save_pc' = "open_cache"
    /\ save_key' = key
    /\ save_ret' = "None"
    /\ save_retry' = (save_ret = "False")
    /\ save_prev' = DiskRecord(key)
    /\ last_load' = None
    /\ UNCHANGED cache_info

\* with open(cache_file, 'wb') as f: the file is created or truncated.
SaveOpenCache ==
    /\ save_pc = "open_cache"
    /\ cache_dir
    /\ cache_file' = [cache_file EXCEPT ![save_key] = Partial]
    /\ last_saved' = [last_saved EXCEPT ![save_key] = None]
    /\ save_pc' = "dump_cache"
    /\ UNCHANGED <<now, info_file, cache_dir, analyzerVars, save_key, cache_info,
                   save_ret, save_prev, save_retry, loadVars, opVars, procVars>>

\* pickle.dump(cache_data, f), then the cache_info dict is built.  The bytes
\* land in the file that was opened: one the operator has removed since stays
\* removed.
SaveDumpCache ==
    /\ save_pc = "dump_cache"
    /\ cache_file' = [cache_file EXCEPT
                         ![save_key] =
                             IF cache_file[save_key] = Partial
                             THEN PickleNew(manager_squads, league_data)
                             ELSE cache_file[save_key]]
    /\ cache_info' = CacheInfo(save_key, manager_squads, league_data, now)
    /\ save_pc' = "open_info"
    /\ UNCHANGED <<now, info_file, cache_dir, analyzerVars, save_key, save_ret,
                   save_prev, save_retry, loadVars, last_saved, opVars, procVars>>

\* with open(info_file, 'w') as f: the file is created or truncated.
SaveOpenInfo ==
    /\ save_pc = "open_info"
    /\ cache_dir
    /\ info_file' = [info_file EXCEPT ![save_key] = Partial]
    /\ save_pc' = "dump_info"
    /\ UNCHANGED <<now, cache_file, cache_dir, analyzerVars, save_key, cache_info,
                   save_ret, save_prev, save_retry, loadVars, last_saved, opVars,
                   procVars>>

\* json.dump(cache_info, f, indent=2); return True.
SaveDumpInfo ==
    /\ save_pc = "dump_info"
    /\ info_file' = [info_file EXCEPT
                        ![save_key] = IF info_file[save_key] = Partial
                                      THEN cache_info ELSE info_file[save_key]]
    /\ save_pc' = "idle"
    /\ save_ret' = "True"
    /\ save_key' = NoKey
    /\ cache_info' = None
    /\ save_prev' = None
    /\ last_saved' = [last_saved EXCEPT
                         ![save_key] =
                             IF /\ Readable(cache_file[save_key])
                                /\ info_file[save_key] = Partial
                             THEN [state |-> "saved",
                                   manager_squads |-> manager_squads,
                                   league_data |-> league_data]
                             ELSE None]
    /\ UNCHANGED <<now, cache_file, cache_dir, analyzerVars, save_retry, loadVars,
                   opVars, procVars>>

\* A failed save that also drops the rosters held in memory.
SaveRaiseLosing ==
    /\ save_pc \in {"open_cache", "dump_cache", "open_info", "dump_info"}
    /\ save_pc' = "idle"
    /\ save_ret' = "False"
    /\ save_key' = NoKey
    /\ cache_info' = None
    /\ save_prev' = None
    /\ manager_squads' = EmptySquads
    /\ UNCHANGED <<now, diskVars, league_data, current_league_id, save_retry,
                   loadVars, last_saved, opVars, procVars>>

\* except Exception: return False.  Any of the four file operations can raise
\* (disk full, permissions, the directory removed by the operator's clear).
SaveRaise ==
    /\ save_pc \in {"open_cache", "dump_cache", "open_info", "dump_info"}
    /\ save_pc' = "idle"
    /\ save_ret' = "False"
    /\ save_key' = NoKey
    /\ cache_info' = None
    /\ save_prev' = None
    /\ UNCHANGED <<now, diskVars, analyzerVars, save_retry, loadVars, last_saved,
                   opVars, procVars>>

SaveStep == SaveOpenCache \/ SaveDumpCache \/ SaveOpenInfo \/ SaveDumpInfo

\* -------------------------------------------------- load_manager_squads_cache

\* A load that looks at the payload file alone.
LoadReturnsPayloadOnly(key, skip_prompt, answer) ==
    Readable(cache_file[key])

\* A load that refuses every stale record.
LoadReturnsFreshOnly(key, skip_prompt, answer) ==
    /\ cache_file[key] # Absent /\ info_file[key] # Absent
    /\ Readable(info_file[key])
    /\ ~IsStale(info_file[key], now)
    /\ Readable(cache_file[key])

\* cache_info['total_managers_in_league'] of the "Coverage" line, printed
\* after the assignments: KeyError for metadata without the key.
HasCoverage(info) == "total_managers_in_league" \in DOMAIN info

\* The value load_manager_squads_cache returns for the key, given skip_prompt
\* and the operator's answer to "Use cached data anyway?".
LoadReturns(key, skip_prompt, answer) ==
    /\ cache_file[key] # Absent /\ info_file[key] # Absent
    /\ Readable(info_file[key])
    /\ ~(IsStale(info_file[key], now) /\ ~skip_prompt /\ answer = "n")
    /\ Readable(cache_file[key])
    /\ HasCoverage(info_file[key])

\* The call gets as far as the "Coverage" line and raises there: it returns
\* False from its except clause, after the assignments.
LoadRaisesLate(key, skip_prompt, answer) ==
    /\ cache_file[key] # Absent /\ info_file[key] # Absent
    /\ Readable(info_file[key])
    /\ ~(IsStale(info_file[key], now) /\ ~skip_prompt /\ answer = "n")
    /\ Readable(cache_file[key])
    /\ ~HasCoverage(info_file[key])

\* Whether the call reaches "self.manager_squads = ..." and
\* "self.league_data = ...".
LoadAssigns(key, skip_prompt, answer) ==
    LoadReturns(key, skip_prompt, answer)
        \/ LoadRaisesLate(key, skip_prompt, answer)

\* A load of the old format that leaves self.league_data as it was.
LoadedLeagueKept(key) ==
    IF cache_file[key].format = "new" THEN cache_file[key].league_data
                                      ELSE league_data

\* What a load that returns True assigns to self.manager_squads and to
\* self.league_data: both fields of the new format, or the bare mapping and
\* None for the old one.
LoadedSquads(key) == cache_file[key].manager_squads
LoadedLeague(key) ==
    IF IsNewFormat(cache_file[key]) THEN cache_file[key].league_data
                                    ELSE NoLeague

\* Whether the call reaches input("Use cached data anyway? ..."): both files
\* exist, the metadata was read, and it is older than the hour.
LoadPrompts(key, skip_prompt) ==
    /\ cache_file[key] # Absent /\ info_file[key] # Absent
    /\ Readable(info_file[key])
    /\ IsStale(info_file[key], now)
    /\ ~skip_prompt

\* datetime.now() - cached_time, in hours, of a record whose metadata reads.
RecordAge(key) ==
    IF Readable(info_file[key]) THEN now - info_file[key].cached_at ELSE -1

\* The whole call as one step: the fields are assigned when the call gets as
\* far as the assignments, whatever it returns in the end.
\* last_load keeps, next to the arguments and the result, what the disk held
\* when the call was made.
load_manager_squads_cache(key, skip_prompt, answer) ==
    /\ last_load' = [state |-> "load", key |-> key,
                     skip_prompt |-> skip_prompt,
                     answer |-> IF LoadPrompts(key, skip_prompt)
                                THEN answer ELSE "none",
                     allow_stale |-> (skip_prompt \/ answer # "n"),
                     ret |-> LoadReturns(key, skip_prompt, answer),
                     prompted |-> LoadPrompts(key, skip_prompt),
                     cache_present |-> cache_file[key] # Absent,
                     info_present |-> info_file[key] # Absent,
                     readable |-> Readable(cache_file[key])
                                  /\ Readable(info_file[key]),
                     legacy |-> IF Readable(cache_file[key])
                                THEN ~IsNewFormat(cache_file[key]) ELSE FALSE,
                     age |-> RecordAge(key)]
    /\ manager_squads' = IF LoadAssigns(key, skip_prompt, answer)
                         THEN LoadedSquads(key) ELSE manager_squads

\* ---------------------------------------------- cache_manager.py, the operator

\* A confirmation that deletes whatever the operator answers.
OpConfirmDeleteAnyway(confirm) ==
    /\ op_pc = "confirm_delete"
    /\ op_answer' = confirm
    /\ op_pc' = "remove_cache"
    /\ UNCHANGED <<now, diskVars, analyzerVars, saveVars, loadVars, last_saved,
                   op_key, procVars>>

\* delete_specific_cache: the caches listed are the readable info files; the
\* operator selects one and is asked to confirm.
OpSelectDelete(key) ==
    /\ op_pc = "menu"
    /\ cache_dir
    /\ Readable(info_file[key])
    /\ op_pc' = "confirm_delete"
    /\ op_key' = key
    /\ op_answer' = "none"
    /\ UNCHANGED <<now, diskVars, analyzerVars, saveVars, loadVars, last_saved,
                   procVars>>

\* confirm = input("Delete ... cache? (y/n): ").lower(); if confirm == 'y'.
OpConfirmDelete(confirm) ==
    /\ op_pc = "confirm_delete"
    /\ op_answer' = confirm
    /\ op_pc' = IF confirm = "y" THEN "remove_cache" ELSE "cancelled"
    /\ UNCHANGED <<now, diskVars, analyzerVars, saveVars, loadVars, last_saved,
                   op_key, procVars>>

\* if os.path.exists(cache_file): os.remove(cache_file)
OpRemoveCache ==
    /\ op_pc = "remove_cache"
    /\ cache_file' = [cache_file EXCEPT ![op_key] = Absent]
    /\ last_saved' = [last_saved EXCEPT ![op_key] = None]
    /\ op_pc' = "remove_info"
    /\ UNCHANGED <<now, info_file, cache_dir, analyzerVars, saveVars, loadVars,
                   op_key, op_answer, procVars>>

\* if os.path.exists(info_file): os.remove(info_file); the tool is back at
\* its menu.
OpRemoveInfo ==
    /\ op_pc = "remove_info"
    /\ info_file' = [info_file EXCEPT ![op_key] = Absent]
    /\ last_saved' = [last_saved EXCEPT ![op_key] = None]
    /\ op_pc' = "menu"
    /\ op_key' = NoKey
    /\ op_answer' = "none"
    /\ UNCHANGED <<now, cache_file, cache_dir, analyzerVars, saveVars, loadVars,
                   procVars>>

\* clear_all_cache: asked only when the directory exists and holds some .pkl
\* or .json file.
OpSelectClear ==
    /\ op_pc = "menu"
    /\ cache_dir
    /\ \E k \in Keys : cache_file[k] # Absent \/ info_file[k] # Absent
    /\ op_pc' = "confirm_clear"
    /\ op_answer' = "none"
    /\ UNCHANGED <<now, diskVars, analyzerVars, saveVars, loadVars, last_saved,
                   op_key, procVars>>

\* confirm = input("Delete ALL ... (y/n): ").lower(); if confirm == 'y'.
OpConfirmClear(confirm) ==
    /\ op_pc = "confirm_clear"
    /\ op_answer' = confirm
    /\ op_pc' = IF confirm = "y" THEN "rmtree" ELSE "cancelled"
    /\ UNCHANGED <<now, diskVars, analyzerVars, saveVars, loadVars, last_saved,
                   op_key, procVars>>

\* shutil.rmtree(analyzer.cache_dir): every file and the directory go.
OpRmtree ==
    /\ op_pc = "rmtree"
    /\ cache_file' = [k \in Keys |-> Absent]
    /\ info_file' = [k \in Keys |-> Absent]
    /\ cache_dir' = FALSE
    /\ last_saved' = [k \in Keys |-> None]
    /\ op_pc' = "makedirs"
    /\ UNCHANGED <<now, analyzerVars, saveVars, loadVars, op_key, op_answer,
                   procVars>>

\* os.makedirs(analyzer.cache_dir); the tool is back at its menu.
OpMakedirs ==
    /\ op_pc = "makedirs"
    /\ cache_dir' = TRUE
    /\ op_pc' = "menu"
    /\ op_answer' = "none"
    /\ UNCHANGED <<now, cache_file, info_file, analyzerVars, saveVars, loadVars,
                   last_saved, op_key, procVars>>

\* print("Deletion cancelled") or print("Clear cancelled"); back at the menu.
OpCancelled ==
    /\ op_pc = "cancelled"
    /\ op_pc' = "menu"
    /\ op_key' = NoKey
    /\ op_answer' = "none"
    /\ UNCHANGED <<now, diskVars, analyzerVars, saveVars, loadVars, last_saved,
                   procVars>>

\* The answers typed at a (y/n) question; only 'y' confirms.
Answers == {"y", "n"}

Operator ==
    \/ \E k \in Keys : OpSelectDelete(k)
    \/ \E c \in Answers : OpConfirmDelete(c)
    \/ OpRemoveCache
    \/ OpRemoveInfo
    \/ OpSelectClear
    \/ \E c \in Answers : OpConfirmClear(c)
    \/ OpRmtree
    \/ OpMakedirs
    \/ OpCancelled

\* ------------------------------------------------------------------ the clock

Tick ==
    /\ now < MaxTime
    /\ now' = now + 1
    /\ UNCHANGED <<diskVars, analyzerVars, saveVars, loadVars, last_saved, opVars, procVars>>

\* ------------------------------------------------- the cache store on its own

\* The roster mappings and league snapshots an analyzer is given to save.
SampleSquads ==
    {EmptySquads,
     [m \in {1} |-> <<10, 20>>],
     [m \in {1, 2} |-> IF m = 1 THEN <<10, 30>> ELSE <<10, 20>>]}
SampleLeagues == {NoLeague, League(LeagueMembers(1))}

\* The keys the analyzer is called with.
CacheKeys == {<<1, 1>>}
\* A record written by an earlier version of the program.
LegacyCache == PickleLegacy([m \in {1} |-> <<10, 30>>])
LegacyInfo(key) ==
    [state |-> "json", league_id |-> key[1], gameweek |-> key[2],
     manager_count |-> 1, cached_at |-> 0, total_managers_in_league |-> 2]

\* No interactive session runs.
CliIdle ==
    /\ pc = "idle" /\ league_id = NoLeagueId /\ cache_loaded = FALSE
    /\ manager_ids = <<>> /\ skip_fetch = FALSE /\ cached_manager_ids = {}
    /\ missing_defined = FALSE /\ new_squads = EmptySquads
    /\ decision = "none"

\* No web app runs.
WebIdle ==
    /\ web_pc = "down" /\ web_league_id = NoLeagueId /\ web_response = "none"
    /\ listed = <<>>

\* No fetch is followed request by request.
FetchIdle ==
    /\ f_pc = "idle" /\ f_ids = <<>> /\ f_i = 0 /\ all_squads = EmptySquads
    /\ tasks = <<>> /\ requests = [m \in Managers |-> 0] /\ f_got = {}

\* A percentage over the members found.
PercentageOfFound(count, total) ==
    IF count = 0 THEN 0 ELSE (count * 10000) \div count

\* (combination_count / total_managers_checked) * 100, in hundredths of a
\* percent; the web app answers 0 over no rosters.
Percentage(count, total) ==
    IF total = 0 THEN 0 ELSE (count * 10000) \div total

\* What a query came to: how it ended, the names asked for, the name it
\* stopped at, the item ids resolved and the members found; a query that
\* found its items also gives len(self.manager_squads), the number of members
\* found and the percentage.
Outcome(outcome, names, name, ids, matching) ==
    LET total == IF outcome = "results"
                 THEN Cardinality(DOMAIN manager_squads) ELSE 0
    IN [outcome |-> outcome, player_names |-> names, name |-> name,
        player_ids |-> ids, matching_managers |-> matching,
        total_managers_checked |-> total,
        combination_count |-> Len(matching),
        percentage |-> Percentage(Len(matching), total)]
NoResults == Outcome("none", <<>>, <<>>, <<>>, <<>>)

\* No speed mode is chosen and no settings are in use.
NoSpeed ==
    [state |-> "none", n |-> 0, choice |-> "", speed_mode |-> "",
     batch_size |-> 0, max_workers |-> 0]
NoConfig ==
    [state |-> "none", batch_size |-> 0, max_workers |-> 0, delay |-> 0,
     retry_delay |-> 0, batches |-> <<>>]

\* The web app's request threads, and a thread that serves no load_league.
RequestThreads == {1, 2}
NoRequest ==
    [state |-> "idle", league_id |-> NoLeagueId, manager_ids |-> <<>>,
     cache_info |-> None, response |-> "none"]
NoRequests == [t \in RequestThreads |-> NoRequest]

\* league_standings_cache and cache_timestamps are empty; the clock of the
\* web app stands at 0 and cleanup_expired_cache has not run.
NoStandings ==
    [league_standings_cache |-> {}, cache_timestamps |-> <<>>, ticks |-> 0,
     cleaned |-> FALSE]

\* No query is made.
QueryIdle ==
    /\ q_pc = "idle" /\ player_names = <<>> /\ results = NoResults
    /\ analysis = NoResults
    /\ speed = NoSpeed /\ config = NoConfig
    /\ reqs = NoRequests /\ standings = NoStandings

InitIdle ==
    /\ save_pc = "idle" /\ save_key = NoKey /\ cache_info = None
    /\ save_ret = "None" /\ save_prev = None /\ save_retry = FALSE
    /\ last_load = None
    /\ last_saved = [k \in Keys |-> None]
    /\ op_pc = "menu" /\ op_key = NoKey /\ op_answer = "none"
    /\ cache_dir = TRUE

InitCache ==
    /\ now = 0
    /\ \E legacy \in SUBSET CacheKeys :
          /\ cache_file = [k \in Keys |->
                               IF k \in legacy THEN LegacyCache ELSE Absent]
          /\ info_file = [k \in Keys |->
                              IF k \in legacy THEN LegacyInfo(k) ELSE Absent]
    /\ manager_squads = EmptySquads
    /\ league_data = NoLeague
    /\ current_league_id = NoLeagueId
    /\ InitIdle
    /\ CliIdle
    /\ WebIdle
    /\ FetchIdle
    /\ QueryIdle

\* The analyzer comes to hold a roster mapping and a league snapshot.
CacheHold(squads, league) ==
    /\ save_pc = "idle"
    /\ manager_squads' = squads
    /\ league_data' = league
    /\ last_load' = None
    /\ UNCHANGED <<now, diskVars, current_league_id, saveVars, last_saved, opVars, procVars>>

CacheSave(key) ==
    /\ SaveBegin(key)
    /\ UNCHANGED <<now, diskVars, analyzerVars, last_saved, opVars, procVars>>

CacheLoad(key, skip_prompt, answer) ==
    /\ save_pc = "idle"
    /\ load_manager_squads_cache(key, skip_prompt, answer)
    /\ league_data' = IF LoadAssigns(key, skip_prompt, answer)
                      THEN LoadedLeague(key) ELSE league_data
    /\ UNCHANGED <<now, diskVars, current_league_id, saveVars, last_saved, opVars, procVars>>

NextCache ==
    \/ \E s \in SampleSquads, l \in SampleLeagues : CacheHold(s, l)
    \/ \E k \in CacheKeys : CacheSave(k)
    \/ SaveStep
    \/ SaveRaise
    \/ \E k \in CacheKeys, sp \in BOOLEAN, a \in {"y", "n"} : CacheLoad(k, sp, a)
    \/ Tick

SpecCache == InitCache /\ [][NextCache]_vars

\* ------------------------------------------------------------ the remote API

\* The roster the remote API holds for a manager in the current gameweek.
RemoteRoster(m) == IF m % 2 = 1 THEN <<10, 20>> ELSE <<10, 30>>

\* get_league_info(league_id): self.league_data is assigned whatever
\* get_league_data returned, None included; current_league_id only on success.
\* ok: whether the remote API returned the standings.
LeagueAfterInfo(l, ok) == IF ok THEN League(LeagueMembers(l)) ELSE NoLeague
LeagueIdAfterInfo(l, ok) == IF ok THEN l ELSE current_league_id

\* fetch_manager_squads_batch as one step: the mapping it returns, and assigns
\* to self.manager_squads, holds the managers whose fetch succeeded.
FetchedSquads(ids, succeeded) ==
    [m \in Range(ids) \cap succeeded |-> RemoteRoster(m)]

\* dict.update: the entries of b replace and extend those of a.
DictUpdate(a, b) ==
    [m \in DOMAIN a \cup DOMAIN b |-> IF m \in DOMAIN b THEN b[m] ELSE a[m]]

\* The keys of a dict as a list (here in ascending order).
RECURSIVE KeysList(_)
KeysList(S) ==
    IF S = {} THEN <<>>
    ELSE LET m == CHOOSE x \in S : \A y \in S : x <= y
         IN <<m>> \o KeysList(S \ {m})

\* ------------------------------------------------------- coverage reconciling

\* A threshold that has to be exceeded.
CoveredStrictly(cached_count, total_count) ==
    cached_count * 20 > total_count * 19

\* cached_count >= total_count * 0.95.  The product is a double; for the
\* counts of the model it is within 2^-40 of 0.95 * total_count and never
\* above it, so the comparison is that of the integers below.
Covered(cached_count, total_count) == cached_count * 20 >= total_count * 19

\* A check that hands the whole league to the fetch when it extends a cache.
ReconcileRefetchAll(squads, ids, extend_cache) ==
    IF squads = EmptySquads
    THEN [decision |-> "empty", skip_fetch |-> FALSE, manager_ids |-> ids,
          missing_defined |-> FALSE, cached_manager_ids |-> {}]
    ELSE IF Cardinality(DOMAIN squads) * 20 >= Len(ids) * 19
    THEN [decision |-> "covered", skip_fetch |-> TRUE, manager_ids |-> ids,
          missing_defined |-> FALSE, cached_manager_ids |-> {}]
    ELSE IF extend_cache # "n"
    THEN [decision |-> "gap", skip_fetch |-> FALSE, manager_ids |-> ids,
          missing_defined |-> TRUE, cached_manager_ids |-> DOMAIN squads]
    ELSE [decision |-> "declined", skip_fetch |-> TRUE, manager_ids |-> ids,
          missing_defined |-> FALSE, cached_manager_ids |-> {}]

\* A check that takes an empty cache for a complete one.
ReconcileTrustEmpty(squads, ids, extend_cache) ==
    IF Cardinality(DOMAIN squads) * 20 >= Len(ids) * 19
    THEN [decision |-> "covered", skip_fetch |-> TRUE, manager_ids |-> ids,
          missing_defined |-> FALSE, cached_manager_ids |-> {}]
    ELSE IF DOMAIN squads = {}
    THEN [decision |-> "empty", skip_fetch |-> TRUE, manager_ids |-> <<>>,
          missing_defined |-> FALSE, cached_manager_ids |-> {}]
    ELSE IF extend_cache # "n"
    THEN [decision |-> "gap", skip_fetch |-> FALSE,
          manager_ids |-> SelectSeq(ids, LAMBDA mid : mid \notin DOMAIN squads),
          missing_defined |-> TRUE, cached_manager_ids |-> DOMAIN squads]
    ELSE [decision |-> "declined", skip_fetch |-> TRUE, manager_ids |-> ids,
          missing_defined |-> FALSE, cached_manager_ids |-> {}]

\* interactive_analysis, "Determine if we need to fetch squads": from the
\* cached mapping, the league's manager_ids and the answer to "Fetch missing
\* managers?", the branch taken, skip_fetch, and the manager_ids to fetch.
Reconcile(squads, ids, extend_cache) ==
    IF squads # EmptySquads
    THEN IF Covered(Cardinality(DOMAIN squads), Len(ids))
         THEN [decision |-> "covered", skip_fetch |-> TRUE, manager_ids |-> ids,
               missing_defined |-> FALSE, cached_manager_ids |-> {}]
         ELSE IF extend_cache # "n"
              THEN [decision |-> "gap", skip_fetch |-> FALSE,
                    manager_ids |->
                        SelectSeq(ids, LAMBDA mid : mid \notin DOMAIN squads),
                    missing_defined |-> TRUE,
                    cached_manager_ids |-> DOMAIN squads]
              ELSE [decision |-> "declined", skip_fetch |-> TRUE,
                    manager_ids |-> ids, missing_defined |-> FALSE,
                    cached_manager_ids |-> {}]
    ELSE [decision |-> "empty", skip_fetch |-> FALSE, manager_ids |-> ids,
          missing_defined |-> FALSE, cached_manager_ids |-> {}]

\* ------------------------------------------------------- interactive_analysis

\* The gameweek the bootstrap data marks current.
current_gw == 1
SessionKey == <<league_id, current_gw>>

\* "Enter FPL League ID": the cache of the league is tried first; without
\* one the league is fetched, and the prompt returns when that fails.
CliEnterLeague(l, answer, ok) ==
    /\ pc = "enter_league"
    /\ save_pc = "idle"
    /\ league_id' = l
    /\ load_manager_squads_cache(<<l, current_gw>>, FALSE, answer)
    /\ cache_loaded' = LoadReturns(<<l, current_gw>>, FALSE, answer)
    /\ IF LoadReturns(<<l, current_gw>>, FALSE, answer)
       THEN /\ league_data' = LoadedLeague(<<l, current_gw>>)
            /\ pc' = "use_cache"
            /\ UNCHANGED current_league_id
       ELSE /\ league_data' = LeagueAfterInfo(l, ok)
            /\ current_league_id' = LeagueIdAfterInfo(l, ok)
            /\ pc' = IF ok THEN "reconcile" ELSE "enter_league"
    /\ UNCHANGED <<now, diskVars, saveVars, last_saved, opVars, manager_ids,
                   skip_fetch, cached_manager_ids, missing_defined, new_squads,
                   decision, otherThanCli>>

\* "Use cached data?": with the cache accepted and its info file readable the
\* league is rebuilt from the cached keys; with the info file gone or
\* unreadable, or the cache refused, the league is fetched.
CliUseCache(use_cache, ok) ==
    /\ pc = "use_cache"
    /\ IF use_cache # "n"
       THEN IF Readable(info_file[SessionKey])
            THEN /\ current_league_id' = league_id
                 /\ league_data' = League(KeysList(DOMAIN manager_squads))
                 /\ pc' = "reconcile"
                 /\ UNCHANGED manager_squads
            ELSE /\ league_data' = LeagueAfterInfo(league_id, ok)
                 /\ current_league_id' = league_id
                 /\ pc' = IF ok THEN "reconcile" ELSE "enter_league"
                 /\ UNCHANGED manager_squads
       ELSE /\ manager_squads' = EmptySquads
            /\ league_data' = LeagueAfterInfo(league_id, ok)
            /\ current_league_id' = LeagueIdAfterInfo(league_id, ok)
            /\ pc' = IF ok THEN "reconcile" ELSE "enter_league"
    /\ UNCHANGED <<now, diskVars, saveVars, loadVars, last_saved, opVars,
                   league_id, cache_loaded, manager_ids, skip_fetch,
                   cached_manager_ids, missing_defined, new_squads, decision,
                   otherThanCli>>

\* manager_ids is read from league_data and the coverage check is made.
CliReconcile(extend_cache) ==
    /\ pc = "reconcile"
    /\ LET r == Reconcile(manager_squads, Results(league_data), extend_cache)
       IN /\ decision' = r.decision
          /\ skip_fetch' = r.skip_fetch
          /\ manager_ids' = r.manager_ids
          /\ missing_defined' = r.missing_defined
          /\ cached_manager_ids' = r.cached_manager_ids
          /\ pc' = IF r.skip_fetch THEN "query" ELSE "fetch"
    /\ UNCHANGED <<now, diskVars, analyzerVars, saveVars, loadVars, last_saved,
                   opVars, league_id, cache_loaded, new_squads, otherThanCli>>

\* The fetch, the merge when a cache is being extended, and the call of
\* save_manager_squads_cache.  An empty manager_ids ends the fetch in a
\* ZeroDivisionError after self.manager_squads was assigned; an empty result
\* ends the session ("Failed to fetch manager squads").
CliFetch(succeeded) ==
    /\ pc = "fetch"
    /\ LET fetched == FetchedSquads(manager_ids, succeeded)
       IN IF manager_ids = <<>>
          THEN /\ manager_squads' = EmptySquads
               /\ pc' = "crashed"
               /\ UNCHANGED <<new_squads, saveVars, last_load>>
          ELSE /\ new_squads' = fetched
               /\ manager_squads' =
                      IF fetched # EmptySquads /\ cache_loaded /\ missing_defined
                      THEN DictUpdate(fetched, fetched)
                      ELSE fetched
               /\ IF fetched = EmptySquads
                  THEN /\ pc' = "failed"
                       /\ UNCHANGED <<saveVars, last_load>>
                  ELSE /\ pc' = "saving"
                       /\ SaveBegin(SessionKey)
    /\ UNCHANGED <<now, diskVars, league_data, current_league_id, last_saved,
                   opVars, league_id, cache_loaded, manager_ids, skip_fetch,
                   cached_manager_ids, missing_defined, decision, otherThanCli>>

\* save_manager_squads_cache has returned; its result is not looked at.
CliSaved ==
    /\ pc = "saving"
    /\ save_pc = "idle"
    /\ pc' = "query"
    /\ UNCHANGED <<now, diskVars, analyzerVars, saveVars, loadVars, last_saved,
                   opVars, league_id, cache_loaded, manager_ids, skip_fetch,
                   cached_manager_ids, missing_defined, new_squads, decision,
                   otherThanCli>>

\* The query loop is left.
CliQuit ==
    /\ pc = "query"
    /\ pc' = "done"
    /\ UNCHANGED <<now, diskVars, analyzerVars, saveVars, loadVars, last_saved,
                   opVars, league_id, cache_loaded, manager_ids, skip_fetch,
                   cached_manager_ids, missing_defined, new_squads, decision,
                   otherThanCli>>

\* main(): a new process, a new analyzer.
CliStart ==
    /\ pc \in {"done", "failed", "crashed"}
    /\ pc' = "enter_league"
    /\ manager_squads' = EmptySquads
    /\ league_data' = NoLeague
    /\ current_league_id' = NoLeagueId
    /\ league_id' = NoLeagueId
    /\ cache_loaded' = FALSE
    /\ manager_ids' = <<>>
    /\ skip_fetch' = FALSE
    /\ cached_manager_ids' = {}
    /\ missing_defined' = FALSE
    /\ new_squads' = EmptySquads
    /\ decision' = "none"
    /\ last_load' = None
    /\ UNCHANGED <<now, diskVars, saveVars, last_saved, opVars, otherThanCli>>

\* The league ids the operator enters.
CliLeagues == {1}

Init ==
    /\ now = 0
    /\ cache_file = [k \in Keys |-> Absent]
    /\ info_file = [k \in Keys |-> Absent]
    /\ manager_squads = EmptySquads
    /\ league_data = NoLeague
    /\ current_league_id = NoLeagueId
    /\ InitIdle
    /\ WebIdle
    /\ FetchIdle
    /\ QueryIdle
    /\ pc = "enter_league" /\ league_id = NoLeagueId /\ cache_loaded = FALSE
    /\ manager_ids = <<>> /\ skip_fetch = FALSE /\ cached_manager_ids = {}
    /\ missing_defined = FALSE /\ new_squads = EmptySquads
    /\ decision = "none"

Next ==
    \/ \E l \in CliLeagues, a \in {"y", "n"}, ok \in BOOLEAN :
          CliEnterLeague(l, a, ok)
    \/ \E u \in {"y", "n"}, ok \in BOOLEAN : CliUseCache(u, ok)
    \/ \E e \in {"y", "n"} : CliReconcile(e)
    \/ \E succeeded \in SUBSET Managers : CliFetch(succeeded)
    \/ SaveStep
    \/ SaveRaise
    \/ CliSaved
    \/ CliQuit
    \/ CliStart
    \/ Operator
    \/ Tick

Spec == Init /\ [][Next]_vars

\* What a reader of the key can tell: no record while either file is missing
\* (cache_exists is false and a load misses), else the two files' contents.
Observed(key) ==
    IF cache_exists(key) THEN DiskRecord(key)
                         ELSE [cache |-> Absent, info |-> Absent]

\* The complete record the save in progress is writing.
NewRecords(key) ==
    {[cache |-> PickleNew(manager_squads, league_data),
      info |-> CacheInfo(key, manager_squads, league_data, t)] : t \in 0..MaxTime}

\* The record as a reader saw it when the save in progress began.
PreviousRecord ==
    IF save_prev.cache = Absent \/ save_prev.info = Absent
    THEN [cache |-> Absent, info |-> Absent]
    ELSE save_prev

\* C9: a save that returned True, followed by a load of the same key that
\* accepts a stale record, returns True and leaves the analyzer holding the
\* roster mapping and the league snapshot that were saved.
C9_RoundTrip ==
    (/\ last_load.state = "load"
     /\ last_load.allow_stale
     /\ last_saved[last_load.key] # None)
    => /\ last_load.ret
       /\ manager_squads = last_saved[last_load.key].manager_squads
       /\ league_data = last_saved[last_load.key].league_data

\* C9's case: a stale record, written by a save of a non-empty mapping with a
\* league snapshot, has been loaded.
C9_Witness ==
    /\ last_load.state = "load"
    /\ last_load.allow_stale
    /\ last_load.ret
    /\ last_saved[last_load.key] # None
    /\ IsStale(info_file[last_load.key], now)
    /\ manager_squads # EmptySquads
    /\ league_data # NoLeague

\* C10: while a save is in progress a reader of its key observes either the
\* complete previous record or the complete new record.
C10_NeverPartiallyVisible ==
    save_pc # "idle" =>
        \/ Observed(save_key) = PreviousRecord
        \/ Observed(save_key) \in NewRecords(save_key)

\* C11: a save that does not write both files through returns False and
\* leaves the roster mapping and the league snapshot in memory as they were;
\* a save called again after one that returned False, when it runs to its
\* end, returns True and leaves the complete record on disk.
C11_FailedSaveKeepsMemory ==
    [][/\ (save_pc # "idle" /\ save_pc' = "idle")
          => /\ save_ret' \in {"True", "False"}
             /\ (save_ret' = "True")
                <=> (save_pc = "dump_info"
                     /\ info_file'[save_key] = cache_info)
       /\ (save_pc # "idle" /\ save_ret' = "False")
          => (manager_squads' = manager_squads /\ league_data' = league_data)
       /\ (save_retry /\ save_pc # "idle" /\ save_ret' = "True")
          => /\ cache_file'[save_key] = PickleNew(manager_squads, league_data)
             /\ info_file'[save_key] = cache_info]_vars

\* C11's case: a save returned False, the rosters stayed in memory, and the
\* save called again has written them.
C11_Witness ==
    /\ save_retry
    /\ save_pc = "idle"
    /\ save_ret = "True"
    /\ manager_squads # EmptySquads
    /\ \E k \in CacheKeys :
          /\ last_saved[k] # None
          /\ last_saved[k].manager_squads = manager_squads
          /\ cache_file[k] = PickleNew(manager_squads, league_data)

\* The cache store with the operator's tool at work on the same directory.
NextStore == NextCache \/ Operator

SpecStore == InitCache /\ [][NextStore]_vars

\* C12: a load made while the payload file or the metadata file does not
\* exist returns False; a load returns True only when cache_exists held.
C12_MissWhenAbsent ==
    last_load.state = "load"
    => /\ ~(last_load.cache_present /\ last_load.info_present)
          => ~last_load.ret
       /\ last_load.ret
          => (last_load.cache_present /\ last_load.info_present)

\* C12's case: a load found the metadata file without the payload file and
\* reported a miss.
C12_Witness ==
    /\ last_load.state = "load"
    /\ last_load.info_present
    /\ ~last_load.cache_present
    /\ ~last_load.ret

\* C13: a load with skip_prompt = True of a record whose two files are
\* there and readable returns True whatever the record's age, with the
\* stored rosters in memory, and no load with skip_prompt = True asks the
\* operator anything.
C13_NonInteractiveLoadsAnyAge ==
    (last_load.state = "load" /\ last_load.skip_prompt)
    => /\ ~last_load.prompted
       /\ last_load.readable
          => /\ last_load.ret
             /\ manager_squads = LoadedSquads(last_load.key)

\* C13's case: the web app has loaded a record older than the hour.
C13_Witness ==
    /\ last_load.state = "load"
    /\ last_load.skip_prompt
    /\ last_load.age > 1
    /\ last_load.ret
    /\ web_response = "from_cache"

\* C14: in a load with skip_prompt = False of a record whose metadata
\* reads, the operator is asked exactly when cached_at is more than 1 hour
\* back; a readable record not older than that is loaded without a question;
\* and an answer of 'n' makes the load return False with the roster mapping
\* and the league snapshot in memory left as they were.
C14_StalePromptAndReject ==
    /\ [](  (last_load.state = "load" /\ ~last_load.skip_prompt
             /\ last_load.cache_present /\ last_load.age >= 0)
          => /\ last_load.prompted <=> last_load.age > 1
             /\ (last_load.prompted /\ last_load.answer = "n")
                => ~last_load.ret
             /\ (~last_load.prompted /\ last_load.readable)
                => last_load.ret)
    /\ [][(/\ last_load'.state = "load"
           /\ last_load'.prompted
           /\ last_load'.answer = "n")
          => (manager_squads' = manager_squads
              /\ league_data' = league_data)]_vars

\* C14's case: the operator refused a record two hours old while the
\* analyzer held other rosters.
C14_Witness ==
    /\ last_load.state = "load"
    /\ ~last_load.skip_prompt
    /\ last_load.readable
    /\ last_load.age = 2
    /\ last_load.prompted
    /\ last_load.answer = "n"
    /\ ~last_load.ret
    /\ manager_squads # EmptySquads
    /\ manager_squads # LoadedSquads(last_load.key)

\* C15: a load, stale records allowed, of a readable record whose payload is
\* the bare roster mapping returns True, leaves the stored mapping in memory
\* and the league snapshot None.
C15_LegacyRecordLoads ==
    (/\ last_load.state = "load"
     /\ last_load.legacy
     /\ last_load.readable
     /\ last_load.allow_stale)
    => /\ last_load.ret
       /\ league_data = NoLeague
       /\ Readable(cache_file[last_load.key])
          => manager_squads = cache_file[last_load.key].manager_squads

\* C15's case: the record of the earlier version was loaded.
C15_Witness ==
    /\ last_load.state = "load"
    /\ last_load.legacy
    /\ last_load.ret
    /\ cache_file[last_load.key] = LegacyCache
    /\ manager_squads = LegacyCache.manager_squads
    /\ manager_squads # EmptySquads
    /\ league_data = NoLeague

\* ------------------------------------------------- the interactive session

\* The fraction of the league's current members that are cached is at least
\* 0.95.
TrulyCovered(squads, l) ==
    Covered(Cardinality(DOMAIN squads \cap Range(LeagueMembers(l))),
            Len(LeagueMembers(l)))

\* C1: once a gap fetch has succeeded, the roster mapping held in memory, and
\* handed to the save, has the previously cached managers and the fetched
\* ones as its keys.
C1_GapFetchKeepsCached ==
    (pc \in {"saving", "query", "done"} /\ cache_loaded /\ missing_defined)
    => DOMAIN manager_squads = cached_manager_ids \cup DOMAIN new_squads

\* C6: the coverage check compares the cached members of the league with the
\* league's full current member list: the list it reads is the league's, and
\* it finds the cache good enough exactly when at least 0.95 of the league's
\* current members are cached.
C6_CoverageOverLeagueList ==
    decision \in {"covered", "gap", "declined"}
    => /\ Results(league_data) = LeagueMembers(league_id)
       /\ (decision = "covered") <=> TrulyCovered(manager_squads, league_id)

C8_EmptyCacheFetchesAll ==
    /\ (decision = "empty" /\ pc = "fetch")
       => (~skip_fetch /\ manager_ids = Results(league_data))
    /\ (pc = "fetch" /\ manager_squads = EmptySquads) => decision = "empty"
    /\ decision = "empty" => ~skip_fetch

\* C8's case: the check was made with nothing cached and the whole league is
\* about to be fetched.
C8_Witness ==
    /\ pc = "fetch"
    /\ decision = "empty"
    /\ manager_squads = EmptySquads
    /\ manager_ids = LeagueMembers(league_id)

\* ------------------------------------------- webapp/app.py, load_league

\* POST /api/load_league up to the fetch: the already-loaded shortcut, the
\* cache (loaded whatever its age), the upgrade of a record without league
\* data, and get_league_info when there is no usable cache.
WebLoadLeague(l, ok) ==
    /\ web_pc = "idle"
    /\ save_pc = "idle"
    /\ web_league_id' = l
    /\ listed' = <<>>
    /\ LET key == <<l, current_gw>>
       IN IF current_league_id = l /\ manager_squads # EmptySquads
          THEN /\ web_response' = "already_loaded"
               /\ web_pc' = "idle"
               /\ UNCHANGED <<analyzerVars, last_load>>
          ELSE IF cache_exists(key) /\ LoadReturns(key, TRUE, "y")
          THEN /\ load_manager_squads_cache(key, TRUE, "y")
               /\ current_league_id' = l
               /\ IF LoadedLeague(key) # NoLeague
                  THEN /\ league_data' = LoadedLeague(key)
                       /\ web_response' = "from_cache"
                       /\ web_pc' = "idle"
                  ELSE /\ league_data' = LeagueAfterInfo(l, ok)
                       /\ web_response' = IF ok THEN "pending" ELSE "from_cache"
                       /\ web_pc' = IF ok THEN "upgrade" ELSE "idle"
          ELSE /\ IF cache_exists(key)
                  THEN load_manager_squads_cache(key, TRUE, "y")
                  ELSE UNCHANGED <<manager_squads, last_load>>
               /\ league_data' = LeagueAfterInfo(l, ok)
               /\ current_league_id' = LeagueIdAfterInfo(l, ok)
               /\ web_response' = IF ok THEN "pending" ELSE "error_league"
               /\ web_pc' = IF ok THEN "fetch" ELSE "idle"
    /\ UNCHANGED <<now, diskVars, saveVars, last_saved, opVars, otherThanWeb>>

\* The one-time upgrade: the record is saved again with the league data.
WebUpgrade ==
    /\ web_pc = "upgrade"
    /\ SaveBegin(<<web_league_id, current_gw>>)
    /\ web_pc' = "saving_upgrade"
    /\ UNCHANGED <<now, diskVars, analyzerVars, last_saved, opVars,
                   web_league_id, web_response, listed, otherThanWeb>>

\* manager_ids is read from league_data, the squads are fetched and
\* save_manager_squads_cache is called; an exception of the fetch (the
\* ZeroDivisionError of an empty manager_ids) is answered with an error.
WebFetch(succeeded) ==
    /\ web_pc = "fetch"
    /\ LET ids == Results(league_data)
       IN IF ids = <<>>
          THEN /\ manager_squads' = EmptySquads
               /\ web_response' = "error_fetch"
               /\ web_pc' = "idle"
               /\ UNCHANGED <<saveVars, last_load>>
          ELSE /\ manager_squads' = FetchedSquads(ids, succeeded)
               /\ SaveBegin(<<web_league_id, current_gw>>)
               /\ web_pc' = "saving_fetch"
               /\ UNCHANGED web_response
    /\ UNCHANGED <<now, diskVars, league_data, current_league_id, last_saved,
                   opVars, web_league_id, listed, otherThanWeb>>

\* save_manager_squads_cache has returned, its result is not looked at, and
\* the success response is sent.
WebSaved ==
    /\ web_pc \in {"saving_upgrade", "saving_fetch"}
    /\ save_pc = "idle"
    /\ web_response' = IF web_pc = "saving_fetch" THEN "loaded" ELSE "from_cache"
    /\ web_pc' = "idle"
    /\ UNCHANGED <<now, diskVars, analyzerVars, saveVars, loadVars, last_saved,
                   opVars, web_league_id, listed, otherThanWeb>>

\* os.listdir(cache_dir): the file names come in arbitrary order.
ListDirOrders ==
    {order \in [1..Cardinality(Keys) -> Keys] : Range(order) = Keys}

\* list_available_caches: the metadata of every info file that reads, in the
\* order of the directory listing; the list is sorted by cached_at for the
\* printed table only, and returned as collected.
list_available_caches(order) ==
    LET found == SelectSeq(order, LAMBDA k : Readable(info_file[k]))
    IN [i \in 1..Len(found) |-> info_file[found[i]]]

\* GET /api/cache_info: the list is passed on entry by entry.
WebCacheInfo(order) ==
    /\ web_pc = "idle"
    /\ listed' = list_available_caches(order)
    /\ web_response' = "cache_files"
    /\ UNCHANGED <<now, diskVars, analyzerVars, saveVars, loadVars, last_saved,
                   opVars, web_pc, web_league_id, otherThanWeb>>

\* The leagues the web app is asked to load.
WebLeagues == {1, 2}

\* The web app starts with a new analyzer; the cache directory may hold the
\* records of an earlier version of the program.
InitWeb ==
    /\ now = 0
    /\ \E legacy \in SUBSET CacheKeys :
          /\ cache_file = [k \in Keys |->
                               IF k \in legacy THEN LegacyCache ELSE Absent]
          /\ info_file = [k \in Keys |->
                              IF k \in legacy THEN LegacyInfo(k) ELSE Absent]
    /\ manager_squads = EmptySquads
    /\ league_data = NoLeague
    /\ current_league_id = NoLeagueId
    /\ InitIdle
    /\ CliIdle
    /\ FetchIdle
    /\ QueryIdle
    /\ web_pc = "idle" /\ web_league_id = NoLeagueId /\ web_response = "none"
    /\ listed = <<>>

NextWeb ==
    \/ \E l \in WebLeagues, ok \in BOOLEAN : WebLoadLeague(l, ok)
    \/ WebUpgrade
    \/ \E succeeded \in SUBSET Managers : WebFetch(succeeded)
    \/ SaveStep
    \/ SaveRaise
    \/ WebSaved
    \/ \E order \in ListDirOrders : WebCacheInfo(order)
    \/ Tick

SpecWeb == InitWeb /\ [][NextWeb]_vars

\* C4: a fetch run in which no member succeeds ends in an error outcome and
\* persists no cache record: load_league neither hands an empty result to
\* the save nor answers it with the success response.
C4_ZeroSuccessIsAnError ==
    /\ web_pc = "saving_fetch" => manager_squads # EmptySquads
    /\ (web_pc = "idle" /\ web_response = "loaded")
       => manager_squads # EmptySquads

\* --------------------------- fetch_manager_squads_batch, request by request

\* speed_configs of fetch_manager_squads_batch; the delays are in hundredths
\* of a second.
speed_configs ==
    [conservative |-> [batch_size |-> 200, max_workers |-> 3,
                       delay |-> 100, retry_delay |-> 100],
     moderate |-> [batch_size |-> 500, max_workers |-> 8,
                   delay |-> 50, retry_delay |-> 50],
     aggressive |-> [batch_size |-> 1000, max_workers |-> 15,
                     delay |-> 10, retry_delay |-> 20],
     maximum |-> [batch_size |-> 2000, max_workers |-> 25,
                  delay |-> 0, retry_delay |-> 10]]

\* The batch size and the number of worker threads, scaled down from the 200
\* and 3 of the 'conservative' mode.
BatchSize == 2
MaxWorkers == 2

\* batch_size, max_workers, batch_delay and retry_delay of the call: the
\* settings it was given, or the scaled-down ones with the delays of the
\* default mode.
SettingsUsed ==
    IF config.state = "none"
    THEN [batch_size |-> BatchSize, max_workers |-> MaxWorkers,
          delay |-> speed_configs.conservative.delay,
          retry_delay |-> speed_configs.conservative.retry_delay]
    ELSE [batch_size |-> config.batch_size, max_workers |-> config.max_workers,
          delay |-> config.delay, retry_delay |-> config.retry_delay]

\* get_manager_squad_safe: for attempt in range(max_retries)
max_retries == 3

\* What one request to the picks endpoint can come to: a roster, an error
\* status, an exception (timeout, connection error), or an empty JSON body.
Outcomes == {"ok", "status", "exception", "empty"}

\* The value of a call: None, or the JSON payload.
NoSquad == {}
Squad(payload) == {payload}
Payload(squad) == CHOOSE p \in squad : TRUE

\* get_manager_squad: response.json() on status 200; None on any other status
\* and on every exception.
get_manager_squad(m, outcome) ==
    IF outcome = "ok" THEN Squad(RemoteRoster(m))
    ELSE IF outcome = "empty" THEN Squad(<<>>)
    ELSE NoSquad

\* "if squad:", for None and for an empty payload alike.
Truthy(squad) == squad # NoSquad /\ Payload(squad) # <<>>

\* The sleep of get_manager_squad_safe after an attempt that returned no
\* roster: time.sleep(retry_delay * 0.5), in hundredths of a second.  The
\* time.sleep(retry_delay) of its except branch is not reached:
\* get_manager_squad catches every Exception itself and returns None.
retry_pause(squad) == SettingsUsed.retry_delay \div 2

\* A retry loop that makes one attempt more.
ExhaustedLate(attempts) == attempts >= 4

\* The retry loop is left without a roster once max_retries attempts are made.
Exhausted(attempts) == attempts >= max_retries

\* A retry loop that goes on after a roster was returned.
AttemptEndsExhaustedOnly(squad, attempts) == Exhausted(attempts)

\* "if squad: return squad" and the end of range(max_retries): whether the
\* attempt just made is the last one of get_manager_squad_safe.
AttemptEnds(squad, attempts) == Truthy(squad) \/ Exhausted(attempts)

\* A collection that keeps whatever the future returned.
CollectedAlways(squads, m, squad) ==
    [x \in DOMAIN squads \cup {m} |->
        IF x = m THEN (IF Truthy(squad) THEN Payload(squad) ELSE <<>>)
        ELSE squads[x]]

\* An insertion that starts from an empty accumulator: what was inserted
\* before is lost.
CollectedOverwriting(squads, m, squad) ==
    IF Truthy(squad)
    THEN [x \in {m} |-> Payload(squad)]
    ELSE squads

\* as_completed: "if squad: all_squads[manager_id] = squad".
Collected(squads, m, squad) ==
    IF Truthy(squad)
    THEN [x \in DOMAIN squads \cup {m} |->
              IF x = m THEN Payload(squad) ELSE squads[x]]
    ELSE squads

\* The lists of manager ids the fetch is called with: the sub-lists of the
\* league in its order, and the league in reverse order.
Reverse(seq) == [i \in 1..Len(seq) |-> seq[Len(seq) + 1 - i]]
FetchLists ==
    {KeysList(S) : S \in SUBSET Managers} \cup {Reverse(KeysList(Managers))}

\* The call: all_squads = {} and the batch loop is entered.
FetchCall(ids) ==
    /\ f_pc \in {"idle", "returned", "raised"}
    /\ f_pc' = "batch"
    /\ f_ids' = ids
    /\ f_i' = 0
    /\ all_squads' = EmptySquads
    /\ tasks' = <<>>
    /\ requests' = [m \in Managers |-> 0]
    /\ f_got' = {}
    /\ UNCHANGED <<now, diskVars, analyzerVars, saveVars, loadVars, last_saved,
                   opVars, otherThanFetch>>

\* A slice that stops one member short of a full batch.
FetchSubmitBatchShort ==
    /\ f_pc = "batch"
    /\ f_i < Len(f_ids)
    /\ LET last == IF f_i + SettingsUsed.batch_size < Len(f_ids)
                   THEN f_i + SettingsUsed.batch_size - 1
                   ELSE Len(f_ids)
           batch_ids == SubSeq(f_ids, f_i + 1, last)
       IN tasks' = [j \in 1..Len(batch_ids) |->
                       [id |-> batch_ids[j], st |-> "queued", attempts |-> 0,
                        last |-> "none", result |-> NoSquad,
                        slept |-> <<>>]]
    /\ f_pc' = "running"
    /\ UNCHANGED <<now, diskVars, analyzerVars, saveVars, loadVars, last_saved,
                   opVars, otherThanFetch, f_ids, f_i, all_squads, requests,
                   f_got>>

\* batch_ids = manager_ids[i:i + batch_size]; every id is submitted to the
\* executor.
FetchSubmitBatch ==
    /\ f_pc = "batch"
    /\ f_i < Len(f_ids)
    /\ LET last == IF f_i + SettingsUsed.batch_size < Len(f_ids)
                   THEN f_i + SettingsUsed.batch_size
                   ELSE Len(f_ids)
           batch_ids == SubSeq(f_ids, f_i + 1, last)
       IN tasks' = [j \in 1..Len(batch_ids) |->
                       [id |-> batch_ids[j], st |-> "queued", attempts |-> 0,
                        last |-> "none", result |-> NoSquad,
                        slept |-> <<>>]]
    /\ f_pc' = "running"
    /\ UNCHANGED <<now, diskVars, analyzerVars, saveVars, loadVars, last_saved,
                   opVars, otherThanFetch, f_ids, f_i, all_squads, requests,
                   f_got>>

\* An executor that starts a thread for every call submitted.
WorkerStartUnbounded(j) ==
    /\ f_pc = "running"
    /\ j \in DOMAIN tasks
    /\ tasks[j].st = "queued"
    /\ tasks' = [tasks EXCEPT ![j].st = "running"]
    /\ UNCHANGED <<now, diskVars, analyzerVars, saveVars, loadVars, last_saved,
                   opVars, otherThanFetch, f_pc, f_ids, f_i, all_squads,
                   requests, f_got>>

\* A worker thread takes the next queued call of get_manager_squad_safe.
WorkerStart(j) ==
    /\ f_pc = "running"
    /\ j \in DOMAIN tasks
    /\ tasks[j].st = "queued"
    /\ \A k \in 1..(j - 1) : tasks[k].st # "queued"
    /\ Cardinality({k \in DOMAIN tasks : tasks[k].st = "running"})
           < SettingsUsed.max_workers
    /\ tasks' = [tasks EXCEPT ![j].st = "running"]
    /\ UNCHANGED <<now, diskVars, analyzerVars, saveVars, loadVars, last_saved,
                   opVars, otherThanFetch, f_pc, f_ids, f_i, all_squads,
                   requests, f_got>>

\* One pass of the retry loop: a request is made; a roster is returned at
\* once, anything else is slept on and, after the last attempt, None is
\* returned.
WorkerAttempt(j, outcome) ==
    /\ f_pc = "running"
    /\ j \in DOMAIN tasks
    /\ tasks[j].st = "running"
    /\ LET m == tasks[j].id
           squad == get_manager_squad(m, outcome)
           attempts == tasks[j].attempts + 1
       IN /\ requests' = [requests EXCEPT ![m] = @ + 1]
          /\ f_got' = IF Truthy(squad) THEN f_got \cup {m} ELSE f_got
          /\ tasks' = [tasks EXCEPT ![j] =
                 [id |-> m,
                  st |-> IF AttemptEnds(squad, attempts)
                         THEN "done" ELSE "running",
                  attempts |-> attempts,
                  last |-> outcome,
                  result |-> IF Truthy(squad) THEN squad ELSE NoSquad,
                  slept |-> IF Truthy(squad) THEN tasks[j].slept
                            ELSE Append(tasks[j].slept, retry_pause(squad))]]
    /\ UNCHANGED <<now, diskVars, analyzerVars, saveVars, loadVars, last_saved,
                   opVars, otherThanFetch, f_pc, f_ids, f_i, all_squads>>

\* as_completed hands over a finished future.
FetchCollect(j) ==
    /\ f_pc = "running"
    /\ j \in DOMAIN tasks
    /\ tasks[j].st = "done"
    /\ all_squads' = Collected(all_squads, tasks[j].id, tasks[j].result)
    /\ tasks' = [tasks EXCEPT ![j].st = "collected"]
    /\ UNCHANGED <<now, diskVars, analyzerVars, saveVars, loadVars, last_saved,
                   opVars, otherThanFetch, f_pc, f_ids, f_i, requests, f_got>>

\* A batch loop that is left as soon as a batch had a member without a roster.
FetchBatchEndAborting ==
    /\ f_pc = "running"
    /\ \A j \in DOMAIN tasks : tasks[j].st = "collected"
    /\ f_i' = IF \E j \in DOMAIN tasks : tasks[j].result = NoSquad
              THEN Len(f_ids) ELSE f_i + SettingsUsed.batch_size
    /\ f_pc' = "batch"
    /\ UNCHANGED <<now, diskVars, analyzerVars, saveVars, loadVars, last_saved,
                   opVars, otherThanFetch, f_ids, all_squads, tasks, requests,
                   f_got>>

\* success_rate of the line printed when a batch is complete, in hundredths
\* of a percent: len(all_squads) over (batch_num + 1) * batch_size for the
\* first batch, over len(manager_ids[:i + len(batch_ids)]) for the others.
success_rate ==
    LET batch_num == f_i \div SettingsUsed.batch_size
    IN IF batch_num = 0
       THEN (Cardinality(DOMAIN all_squads) * 10000)
                \div ((batch_num + 1) * SettingsUsed.batch_size)
       ELSE (Cardinality(DOMAIN all_squads) * 10000)
                \div Len(SubSeq(f_ids, 1, f_i + Len(tasks)))

\* A pause after every batch, the last one included.
batch_pause_always == SettingsUsed.delay

\* "if batch_num < total_batches - 1 and batch_delay > 0:
\* time.sleep(batch_delay)": what the loop sleeps once the batch is complete,
\* in hundredths of a second.
batch_pause ==
    LET batch_num == f_i \div SettingsUsed.batch_size
        total_batches == (Len(f_ids) + SettingsUsed.batch_size - 1)
                             \div SettingsUsed.batch_size
    IN IF batch_num < total_batches - 1 /\ SettingsUsed.delay > 0
       THEN SettingsUsed.delay ELSE 0

\* Every future of the batch was handed over: the metrics are printed and the
\* loop sleeps, or goes on to the next batch at once.
FetchBatchEnd ==
    /\ f_pc = "running"
    /\ \A j \in DOMAIN tasks : tasks[j].st = "collected"
    /\ f_i' = f_i + SettingsUsed.batch_size
    /\ f_pc' = IF batch_pause > 0 THEN "sleep" ELSE "batch"
    /\ UNCHANGED <<now, diskVars, analyzerVars, saveVars, loadVars, last_saved,
                   opVars, otherThanFetch, f_ids, all_squads, tasks, requests,
                   f_got>>

\* time.sleep(batch_delay) is over.
FetchSleep ==
    /\ f_pc = "sleep"
    /\ f_pc' = "batch"
    /\ UNCHANGED <<now, diskVars, analyzerVars, saveVars, loadVars, last_saved,
                   opVars, otherThanFetch, f_ids, f_i, all_squads, tasks, requests,
                   f_got>>

\* self.manager_squads = all_squads; the summary line divides by
\* len(manager_ids) and raises for an empty list; return all_squads.
FetchReturn ==
    /\ f_pc = "batch"
    /\ f_i >= Len(f_ids)
    /\ manager_squads' = all_squads
    /\ f_pc' = IF f_ids = <<>> THEN "raised" ELSE "returned"
    /\ UNCHANGED <<now, diskVars, league_data, current_league_id, saveVars,
                   loadVars, last_saved, opVars, otherThanFetch, f_ids, f_i,
                   all_squads, tasks, requests, f_got>>

InitFetch ==
    /\ now = 0
    /\ cache_file = [k \in Keys |-> Absent]
    /\ info_file = [k \in Keys |-> Absent]
    /\ manager_squads = EmptySquads
    /\ league_data = NoLeague
    /\ current_league_id = NoLeagueId
    /\ InitIdle
    /\ CliIdle
    /\ WebIdle
    /\ FetchIdle
    /\ QueryIdle

NextFetch ==
    \/ \E ids \in FetchLists : FetchCall(ids)
    \/ FetchSubmitBatch
    \/ \E j \in 1..SettingsUsed.batch_size : WorkerStart(j)
    \/ \E j \in 1..SettingsUsed.batch_size, outcome \in Outcomes :
          WorkerAttempt(j, outcome)
    \/ \E j \in 1..SettingsUsed.batch_size : FetchCollect(j)
    \/ FetchBatchEnd
    \/ FetchSleep
    \/ FetchReturn

SpecFetch == InitFetch /\ [][NextFetch]_vars

\* C2: the mapping the fetch builds and returns has only requested managers
\* as keys, each one a manager for whom some request returned a non-empty
\* payload, which is the value kept.
C2_OnlyRequestedWithPayload ==
    /\ DOMAIN all_squads \subseteq Range(f_ids) \cap f_got
    /\ f_pc = "returned"
       => /\ DOMAIN manager_squads \subseteq Range(f_ids)
          /\ \A m \in DOMAIN manager_squads :
                 m \in f_got /\ manager_squads[m] # <<>>

\* C2's case: a fetch of more than one batch has returned with some of the
\* requested managers and without others.
C2_Witness ==
    /\ f_pc = "returned"
    /\ Len(f_ids) > BatchSize
    /\ DOMAIN manager_squads # {}
    /\ DOMAIN manager_squads # Range(f_ids)
    /\ \E j \in DOMAIN tasks : tasks[j].last = "empty"

\* C3: when the fetch returns, a manager none of whose requests returned a
\* roster was requested exactly 3 times and is not in the result, and every
\* manager for whom a request returned a roster is in it with that roster.
C3_ExhaustedAfterThree ==
    f_pc = "returned"
    => \A m \in Range(f_ids) :
          /\ m \notin f_got
             => (requests[m] = 3 /\ m \notin DOMAIN manager_squads)
          /\ m \in f_got
             => (m \in DOMAIN manager_squads
                 /\ manager_squads[m] = RemoteRoster(m))

\* C3's case: the fetch has returned; a manager's third request ended in an
\* exception and the manager is left out, while another manager's roster is
\* returned.
C3_Witness ==
    /\ f_pc = "returned"
    /\ manager_squads # EmptySquads
    /\ \E j \in DOMAIN tasks :
          /\ tasks[j].attempts = 3
          /\ tasks[j].last = "exception"
          /\ requests[tasks[j].id] = 3
          /\ tasks[j].id \notin DOMAIN manager_squads

\* C16: the metadata sequence list_available_caches returns, and the web
\* cache_info endpoint passes on, is ordered most-recent-first by cached_at.
C16_ListedMostRecentFirst ==
    web_response = "cache_files"
    => \A i, j \in DOMAIN listed :
          i < j => listed[i].cached_at >= listed[j].cached_at

\* ------------------------------------------------- the coverage threshold

\* The largest league of the threshold check: 19 of 20 is the smallest case
\* of a coverage of exactly 0.95.
MaxLeagueSize == 20

\* A league of n members, as get_league_info left it in league_data.
BigLeague(n) == [i \in 1..n |-> i]

\* A cache holding the managers lo..hi: members of the league, and managers
\* who were members when the cache was written.
CachedRun(lo, hi) == [m \in lo..hi |-> RemoteRoster(m)]

\* interactive_analysis on reaching "Determine if we need to fetch squads":
\* the league was fetched, and a cache, when there is one, was loaded.
InitReconcile ==
    /\ now = 0
    /\ cache_file = [k \in Keys |-> Absent]
    /\ info_file = [k \in Keys |-> Absent]
    /\ InitIdle
    /\ WebIdle
    /\ FetchIdle
    /\ QueryIdle
    /\ \E n \in 1..MaxLeagueSize, lo \in 1..(MaxLeagueSize + 1),
          hi \in 0..(MaxLeagueSize + 1) :
          /\ lo <= hi \/ (lo = 1 /\ hi = 0)
          /\ manager_squads = CachedRun(lo, hi)
          /\ league_data = League(BigLeague(n))
    /\ current_league_id = 1
    /\ league_id = 1
    /\ cache_loaded = (manager_squads # EmptySquads)
    /\ pc = "reconcile"
    /\ manager_ids = <<>> /\ skip_fetch = FALSE /\ cached_manager_ids = {}
    /\ missing_defined = FALSE /\ new_squads = EmptySquads
    /\ decision = "none"

NextReconcile == \E e \in {"y", "n"} : CliReconcile(e)

SpecReconcile == InitReconcile /\ [][NextReconcile]_vars

\* The counts the claims on the threshold speak of.
CachedCount == Cardinality(DOMAIN manager_squads)
RequiredCount == Len(Results(league_data))
CachedRequiredCount ==
    Cardinality(DOMAIN manager_squads \cap Range(Results(league_data)))

StoredRecords(k) ==
    {[cache |-> Absent, info |-> Absent],
     [cache |-> LegacyCache, info |-> LegacyInfo(k)],
     [cache |-> PickleNew([m \in {1} |-> <<10, 20>>], League(LeagueMembers(1))),
      info |-> CacheInfo(k, [m \in {1} |-> <<10, 20>>],
                         League(LeagueMembers(1)), 0)],
     [cache |-> PickleNew([m \in {1} |-> <<10, 20>>], NoLeague),
      info |-> Absent]}

InitOperator ==
    /\ now = 0
    /\ \E disk \in [Keys -> UNION {StoredRecords(k) : k \in Keys}] :
          /\ \A k \in Keys : disk[k] \in StoredRecords(k)
          /\ cache_file = [k \in Keys |-> disk[k].cache]
          /\ info_file = [k \in Keys |-> disk[k].info]
    /\ manager_squads = EmptySquads
    /\ league_data = NoLeague
    /\ current_league_id = NoLeagueId
    /\ InitIdle
    /\ CliIdle
    /\ WebIdle
    /\ FetchIdle
    /\ QueryIdle

SpecOperator == InitOperator /\ [][Operator]_vars

\* C17: the tool changes the cache directory only after the answer 'y'; each
\* step of a confirmed delete removes a file of the selected record and
\* leaves every other record as it was, and when the delete returns both
\* files of the record are gone; when a confirmed clear returns no file is
\* left and the cache directory exists.
C17_DestroysOnlyWhenConfirmed ==
    [][/\ (diskVars' # diskVars) => op_answer = "y"
       /\ (op_pc \in {"confirm_delete", "confirm_clear"} /\ op_answer' # "y")
          => (op_pc' = "cancelled" /\ UNCHANGED diskVars)
       /\ op_pc \in {"remove_cache", "remove_info"}
          => \A k \in Keys \ {op_key} :
                /\ cache_file'[k] = cache_file[k]
                /\ info_file'[k] = info_file[k]
       /\ (op_pc = "remove_info" /\ op_pc' = "menu")
          => /\ cache_file'[op_key] = Absent
             /\ info_file'[op_key] = Absent
             /\ cache_dir'
       /\ (op_pc = "makedirs" /\ op_pc' = "menu")
          => /\ \A k \in Keys : cache_file'[k] = Absent /\ info_file'[k] = Absent
             /\ cache_dir']_vars

\* C17's case: a delete was confirmed, the payload of the selected record is
\* removed, and another record is on disk.
C17_Witness ==
    /\ op_pc = "remove_info"
    /\ op_answer = "y"
    /\ cache_file[op_key] = Absent
    /\ \E k \in Keys \ {op_key} : cache_exists(k)

\* ---------------------------------------------------- the combination query

\* The most names one query holds.
MaxNames == 3

\* str.lower() of one character.
Lower(c) ==
    CASE c = "A" -> "a" [] c = "B" -> "b" [] c = "C" -> "c" [] c = "D" -> "d"
      [] c = "E" -> "e" [] c = "F" -> "f" [] c = "G" -> "g" [] c = "O" -> "o"
      [] OTHER -> c
LowerSeq(str) == [i \in DOMAIN str |-> Lower(str[i])]

\* players_df, in the order of the bootstrap data; a name is the sequence of
\* its characters.
PlayersDf ==
    <<[id |-> 10, first_name |-> <<"A", "l">>, second_name |-> <<"B", "a">>,
       web_name |-> <<"B", "a">>],
      [id |-> 20, first_name |-> <<"C", "y">>, second_name |-> <<"D", "o">>,
       web_name |-> <<"D", "o">>],
      [id |-> 30, first_name |-> <<"E", "d">>, second_name |-> <<"F", "a">>,
       web_name |-> <<"F", "a">>],
      [id |-> 40, first_name |-> <<"A", "l">>, second_name |-> <<"G", "o">>,
       web_name |-> <<"G", "o">>]>>

\* players_df['full_name'] = first_name + ' ' + second_name
full_name(row) == row.first_name \o <<" ">> \o row.second_name

\* str.contains(pat, case=False) takes pat as a regular expression.  Of the
\* characters of the model a letter stands for itself, '.' for any character,
\* and an unclosed '(' makes re.compile raise.
RegexCompiles(pat) == \A i \in 1..Len(pat) : pat[i] # "("
RegexSearch(text, pat) ==
    \E o \in 0..(Len(text) - Len(pat)) :
       \A i \in 1..Len(pat) :
          pat[i] = "." \/ Lower(pat[i]) = Lower(text[o + i])

\* What a lookup of one name comes to.
Found(id) == [state |-> "found", id |-> id]
NotFound == [state |-> "empty", id |-> 0]
Raised == [state |-> "raise", id |-> 0]

\* The first row of players_df a test holds for, if any.
FirstRow(Test(_)) ==
    LET rows == SelectSeq(PlayersDf, Test)
    IN IF rows = <<>> THEN NotFound ELSE Found(rows[1].id)

\* search_players(name, limit=1), then .iloc[0]['id'] of the same mask.
search_players(name) ==
    IF ~RegexCompiles(name) THEN Raised
    ELSE FirstRow(LAMBDA row : RegexSearch(full_name(row), name))

\* find_player_by_name: the exact web_name, then web_name, full_name,
\* first_name and second_name containing the name.
find_player_by_name(name) ==
    LET exact == FirstRow(LAMBDA row : LowerSeq(row.web_name) = LowerSeq(name))
        web == FirstRow(LAMBDA row : RegexSearch(row.web_name, name))
        full == FirstRow(LAMBDA row : RegexSearch(full_name(row), name))
        first == FirstRow(LAMBDA row : RegexSearch(row.first_name, name))
        second == FirstRow(LAMBDA row : RegexSearch(row.second_name, name))
    IN IF exact # NotFound THEN exact
       ELSE IF ~RegexCompiles(name) THEN Raised
       ELSE IF web # NotFound THEN web
       ELSE IF full # NotFound THEN full
       ELSE IF first # NotFound THEN first
       ELSE second

\* The position of the first name whose lookup gave no item, 0 if every
\* lookup gave one: the loop over player_names returns there.
FirstUnresolved(lookups) ==
    IF \A i \in 1..Len(lookups) : lookups[i].state = "found" THEN 0
    ELSE CHOOSE i \in 1..Len(lookups) :
            /\ lookups[i].state # "found"
            /\ \A j \in 1..(i - 1) : lookups[j].state = "found"

\* A test that is content with one of the items.
HasAny(squad_player_ids, player_ids) ==
    \E i \in 1..Len(player_ids) :
       \E j \in 1..Len(squad_player_ids) :
          squad_player_ids[j] = player_ids[i]

\* all(pid in squad_player_ids for pid in player_ids)
HasAll(squad_player_ids, player_ids) ==
    \A i \in 1..Len(player_ids) :
       \E j \in 1..Len(squad_player_ids) :
          squad_player_ids[j] = player_ids[i]

\* A payload without 'picks', and a pick without 'element'.
NoElement == 0
NoPicks == <<-1>>

\* [pick['element'] for pick in squad_data['picks']] raises KeyError for
\* either; "except (KeyError, TypeError): continue".
WellFormed(squad_data) ==
    /\ squad_data # NoPicks
    /\ \A j \in 1..Len(squad_data) : squad_data[j] # NoElement

\* The loop over manager_squads.items(), the dict taken in the order of its
\* member ids.
MatchingManagers(squads, player_ids) ==
    SelectSeq(KeysList(DOMAIN squads),
              LAMBDA manager_id :
                 /\ WellFormed(squads[manager_id])
                 /\ HasAll(squads[manager_id], player_ids))

\* A query that drops the names it cannot resolve and matches on the rest.
find_player_combinations_partial(names) ==
    LET lookups == [i \in 1..Len(names) |-> search_players(names[i])]
        found == SelectSeq(lookups, LAMBDA l : l.state = "found")
        ids == [i \in 1..Len(found) |-> found[i].id]
    IN Outcome("results", names, <<>>, ids,
               MatchingManagers(manager_squads, ids))

\* find_player_combinations(player_names).  It returns ([], {}) when no
\* rosters are loaded and when a name is not found, after printing which.
find_player_combinations(names) ==
    IF manager_squads = EmptySquads
    THEN Outcome("no_squads", names, <<>>, <<>>, <<>>)
    ELSE LET lookups == [i \in 1..Len(names) |-> search_players(names[i])]
             stop == FirstUnresolved(lookups)
             ids == [i \in 1..Len(names) |-> lookups[i].id]
         IN IF stop = 0
            THEN Outcome("results", names, <<>>, ids,
                         MatchingManagers(manager_squads, ids))
            ELSE IF lookups[stop].state = "empty"
            THEN Outcome("not_found", names, names[stop], <<>>, <<>>)
            ELSE Outcome("re_error", names, names[stop], <<>>, <<>>)

\* analyze_combination: a 400 response without names, without rosters, or
\* for a name that is not found; a 500 response for anything raised.
analyze_combination(names) ==
    IF names = <<>> THEN Outcome("no_names", names, <<>>, <<>>, <<>>)
    ELSE IF manager_squads = EmptySquads
    THEN Outcome("no_squads", names, <<>>, <<>>, <<>>)
    ELSE LET lookups == [i \in 1..Len(names) |-> find_player_by_name(names[i])]
             stop == FirstUnresolved(lookups)
             ids == [i \in 1..Len(names) |-> lookups[i].id]
         IN IF stop = 0
            THEN Outcome("results", names, <<>>, ids,
                         MatchingManagers(manager_squads, ids))
            ELSE IF lookups[stop].state = "empty"
            THEN Outcome("not_found", names, names[stop], <<>>, <<>>)
            ELSE Outcome("error_500", names, names[stop], <<>>, <<>>)

\* The names typed at a query.
QueryNames ==
    {<<"b", "a">>, <<"D", "O">>, <<"f", "a">>, <<"g", "o">>, <<"z">>, <<"(">>}
QueryLists == UNION {[1..n -> QueryNames] : n \in 1..MaxNames}

\* The roster mappings a query runs over: three members of whom two hold
\* items 10, 20 and 30, the same with the items in another order and
\* repeated, and one with two payloads that lack a field.
QuerySquads ==
    {[m \in {1, 2, 3} |-> CASE m = 1 -> <<10, 20, 30>>
                            [] m = 2 -> <<10, 20>>
                            [] m = 3 -> <<10, 20, 30, 40>>],
     [m \in {1, 2, 3} |-> CASE m = 1 -> <<30, 10, 20, 10>>
                            [] m = 2 -> <<20, 20, 10>>
                            [] m = 3 -> <<40, 30, 30, 20, 10>>],
     [m \in {1, 2, 3} |-> CASE m = 1 -> <<10, 20, 30>>
                            [] m = 2 -> NoPicks
                            [] m = 3 -> <<10, NoElement, 20, 30>>]}

\* The names are read until the empty line.
QueryEnter(names) ==
    /\ q_pc = "enter"
    /\ player_names' = names
    /\ q_pc' = "find"
    /\ UNCHANGED <<now, diskVars, analyzerVars, saveVars, loadVars, last_saved,
                   opVars, cliVars, webVars, fetchVars, speedVars, requestVars, results, analysis>>

\* A query that keeps only the members found and asks the remote API for
\* their rosters again.
QueryFindRefetching ==
    /\ q_pc = "find"
    /\ results' = find_player_combinations(player_names)
    /\ q_pc' = IF results'.outcome = "re_error" THEN "crashed" ELSE "print"
    /\ manager_squads' =
           [m \in Range(results'.matching_managers) |-> manager_squads[m]]
    /\ requests' = [m \in Managers |->
                        IF m \in Range(results'.matching_managers)
                        THEN requests[m] + 1 ELSE requests[m]]
    /\ UNCHANGED <<now, diskVars, league_data, current_league_id, saveVars,
                   loadVars, last_saved, opVars, cliVars, webVars, f_pc, f_ids,
                   f_i, all_squads, tasks, f_got, speedVars, requestVars, player_names,
                   analysis>>

\* matching_managers, results = self.find_player_combinations(player_names);
\* what search_players raises leaves the loop, which catches
\* KeyboardInterrupt alone.
QueryFind ==
    /\ q_pc = "find"
    /\ results' = find_player_combinations(player_names)
    /\ q_pc' = IF results'.outcome = "re_error" THEN "crashed" ELSE "print"
    /\ UNCHANGED <<now, diskVars, analyzerVars, saveVars, loadVars, last_saved,
                   opVars, cliVars, webVars, fetchVars, speedVars, requestVars, player_names, analysis>>

\* print_results(results) raises KeyError at results['player_names'] of the
\* empty dict; it divides by total_managers_checked only when
\* combination_count > 0.
print_results_raises(r) ==
    \/ r.outcome # "results"
    \/ (r.combination_count > 0 /\ r.total_managers_checked = 0)

\* self.print_results(results): what it raises leaves the loop as well.
QueryPrint ==
    /\ q_pc = "print"
    /\ q_pc' = IF print_results_raises(results) THEN "crashed" ELSE "another"
    /\ UNCHANGED <<now, diskVars, analyzerVars, saveVars, loadVars, last_saved,
                   opVars, cliVars, webVars, fetchVars, speedVars, requestVars, player_names, results,
                   analysis>>

\* another = input("Search for another combination? (y/n): ").lower()
QueryAnother(another) ==
    /\ q_pc = "another"
    /\ q_pc' = IF another = "y" THEN "enter" ELSE "left"
    /\ player_names' = <<>>
    /\ results' = NoResults
    /\ UNCHANGED <<now, diskVars, analyzerVars, saveVars, loadVars, last_saved,
                   opVars, cliVars, webVars, fetchVars, speedVars, requestVars, analysis>>

\* POST /api/analyze_combination: the request is answered in one piece.  A
\* request that gets past the name lookup and misses league_standings_cache
\* calls analyzer.get_league_info(analyzer.current_league_id), which assigns
\* league_data whatever the remote API returned (ok: the standings).
WebAnalyze(names, miss, ok) ==
    /\ web_pc = "idle"
    /\ analysis = NoResults
    /\ analysis' = analyze_combination(names)
    /\ web_response' = IF analysis'.outcome = "results" THEN "success"
                       ELSE "error"
    /\ league_data' = IF analysis'.outcome = "results" /\ miss
                      THEN LeagueAfterInfo(current_league_id, ok)
                      ELSE league_data
    /\ UNCHANGED <<now, diskVars, manager_squads, current_league_id, saveVars,
                   loadVars, last_saved, opVars, cliVars, fetchVars, speedVars, requestVars,
                   web_pc, web_league_id, listed, q_pc, player_names, results>>

\* The response has gone out; the next request can come.
WebAnalyzed ==
    /\ web_pc = "idle"
    /\ analysis # NoResults
    /\ analysis' = NoResults
    /\ UNCHANGED <<now, diskVars, analyzerVars, saveVars, loadVars, last_saved,
                   opVars, cliVars, fetchVars, speedVars, requestVars, webVars, q_pc, player_names,
                   results>>

\* Either front end with its rosters in memory: an interactive session that
\* has reached its query loop, or the web app, which also answers before a
\* league is loaded.
InitQuery ==
    /\ now = 0
    /\ cache_file = [k \in Keys |-> Absent]
    /\ info_file = [k \in Keys |-> Absent]
    /\ InitIdle
    /\ CliIdle
    /\ FetchIdle
    /\ player_names = <<>> /\ results = NoResults /\ analysis = NoResults
    /\ speed = NoSpeed /\ config = NoConfig /\ reqs = NoRequests
    /\ standings = NoStandings
    /\ web_league_id = NoLeagueId /\ web_response = "none" /\ listed = <<>>
    /\ \/ /\ q_pc = "enter" /\ web_pc = "down"
          /\ manager_squads \in QuerySquads
       \/ /\ q_pc = "idle" /\ web_pc = "idle"
          /\ manager_squads \in QuerySquads \cup {EmptySquads}
    /\ league_data = IF manager_squads = EmptySquads THEN NoLeague
                     ELSE League(LeagueMembers(1))
    /\ current_league_id = IF manager_squads = EmptySquads THEN NoLeagueId
                           ELSE 1

NextQuery ==
    \/ \E names \in QueryLists : QueryEnter(names)
    \/ QueryFind
    \/ QueryPrint
    \/ \E another \in {"y", "n"} : QueryAnother(another)
    \/ \E names \in QueryLists \cup {<<>>}, miss, ok \in BOOLEAN :
          WebAnalyze(names, miss, ok)
    \/ WebAnalyzed

SpecQuery == InitQuery /\ [][NextQuery]_vars

\* The item ids a roster holds and the item ids asked for, as sets.
ItemSet(ids) == {ids[i] : i \in 1..Len(ids)}

\* C18: when every name of a query resolved, the members found are exactly
\* the members whose roster's set of item ids includes the set of item ids
\* asked for, whatever the order of the names and however often a roster
\* repeats an item; over rosters holding {10,20,30}, {10,20} and
\* {10,20,30,40}, the items {10,20,30} give members 1 and 3.
C18_MatchIffSuperset ==
    \A r \in {results, analysis} :
       (/\ r.outcome = "results"
        /\ \A m \in DOMAIN manager_squads : WellFormed(manager_squads[m]))
       => /\ ItemSet(r.matching_managers)
             = {m \in DOMAIN manager_squads :
                   ItemSet(r.player_ids) \subseteq ItemSet(manager_squads[m])}
          /\ (ItemSet(r.player_ids) = {10, 20, 30})
             => ItemSet(r.matching_managers) = {1, 3}
          /\ Len(r.matching_managers) = Cardinality(ItemSet(r.matching_managers))

\* C18's case: the three items were asked for out of order over rosters that
\* repeat items, and members 1 and 3 were found.
C18_Witness ==
    /\ results.outcome = "results"
    /\ results.player_ids = <<30, 10, 20>>
    /\ manager_squads[1] = <<30, 10, 20, 10>>
    /\ results.matching_managers = <<1, 3>>

\* C19: over loaded rosters, a query holding a name whose lookup gives no
\* item reports no member, and when the names before it resolved it ends
\* as not found, with that name; this holds for
\* find_player_combinations with search_players and for analyze_combination
\* with find_player_by_name.
C19_UnresolvedNameFailsQuery ==
    /\ results.outcome \notin {"none", "no_squads"}
       => \A i \in 1..Len(results.player_names) :
             search_players(results.player_names[i]) = NotFound
             => /\ results.outcome # "results"
                /\ results.matching_managers = <<>>
                /\ (\A j \in 1..(i - 1) :
                       search_players(results.player_names[j]).state = "found")
                   => /\ results.outcome = "not_found"
                      /\ results.name = results.player_names[i]
    /\ analysis.outcome \notin {"none", "no_names", "no_squads"}
       => \A i \in 1..Len(analysis.player_names) :
             find_player_by_name(analysis.player_names[i]) = NotFound
             => /\ analysis.outcome # "results"
                /\ analysis.matching_managers = <<>>
                /\ (\A j \in 1..(i - 1) :
                       find_player_by_name(analysis.player_names[j]).state
                          = "found")
                   => /\ analysis.outcome = "not_found"
                      /\ analysis.name = analysis.player_names[i]

\* C19's case: the first name resolved to an item every member holds, the
\* second was not found, and the query ended as not found with that name.
C19_Witness ==
    /\ results.outcome = "not_found"
    /\ Len(results.player_names) = 2
    /\ search_players(results.player_names[1]) = Found(10)
    /\ results.name = <<"z">>
    /\ results.matching_managers = <<>>
    /\ \A m \in DOMAIN manager_squads : HasAll(manager_squads[m], <<10>>)

\* C20: a query of the interactive session that ended as not found, or
\* found no rosters loaded, leaves the session in its query loop.
C20_FailedQueryKeepsSession ==
    results.outcome \in {"not_found", "no_squads"} => q_pc # "crashed"

\* The members whose payload a query can read.
ScannedMembers == {m \in DOMAIN manager_squads : WellFormed(manager_squads[m])}

\* C21: a member whose payload lacks 'picks', or holds a pick without
\* 'element', is not among the members found and is not among the members
\* counted: the total of a query result is the number of members whose payload
\* was read.
C21_MalformedNotCounted ==
    \A r \in {results, analysis} :
       r.outcome = "results"
       => /\ ItemSet(r.matching_managers) \subseteq ScannedMembers
          /\ r.total_managers_checked = Cardinality(ScannedMembers)

\* A results dict with the given counts.
ResultWith(count, total) ==
    [NoResults EXCEPT !.outcome = "results",
                      !.total_managers_checked = total,
                      !.combination_count = count,
                      !.percentage = Percentage(count, total)]

C23_MergeKeepsBoth ==
    (pc \in {"saving", "query", "done"} /\ cache_loaded /\ missing_defined)
    => /\ \A m \in DOMAIN new_squads :
             m \in DOMAIN manager_squads /\ manager_squads[m] = new_squads[m]
       /\ \A m \in cached_manager_ids \ DOMAIN new_squads :
             m \in DOMAIN manager_squads /\ manager_squads[m] = RemoteRoster(m)

\* ------------------------------------------------------------ the speed mode

\* speed_modes of interactive_analysis: the menu choices '1' to '4'.
speed_modes ==
    [c \in {"1", "2", "3", "4"} |->
        CASE c = "1" -> "conservative" [] c = "2" -> "moderate"
          [] c = "3" -> "aggressive" [] c = "4" -> "maximum"]

\* "if speed_mode in speed_configs": the preset replaces the batch_size and
\* max_workers arguments; otherwise the arguments are used.
FetchSettings(batch_size, max_workers, speed_mode) ==
    IF speed_mode \in DOMAIN speed_configs
    THEN speed_configs[speed_mode]
    ELSE [batch_size |-> batch_size, max_workers |-> max_workers,
          delay |-> 100, retry_delay |-> 100]

\* The lengths of manager_ids[i:i + batch_size] for i in
\* range(0, len(manager_ids), batch_size).
BatchLengths(n, batch_size) ==
    [k \in 1..((n + batch_size - 1) \div batch_size) |->
        IF k * batch_size <= n THEN batch_size
        ELSE n - (k - 1) * batch_size]

\* The league sizes, batch sizes and worker counts tried.
LeagueSizes == {1, 150, 250, 600, 1200, 2500}
CustomBatchSizes == {50, 200, 700}
CustomWorkers == {1, 5, 30}

\* The menu: a choice of '1' to '4' names a preset; '5' reads a batch size
\* and a worker count, and input that is no number falls back to
\* 'conservative'.
SpeedSelect(choice, valid, b, w) ==
    /\ speed.state = "menu"
    /\ speed' = IF choice \in DOMAIN speed_modes
                THEN [speed EXCEPT !.state = "selected", !.choice = choice,
                                   !.speed_mode = speed_modes[choice]]
                ELSE IF valid
                THEN [speed EXCEPT !.state = "selected", !.choice = choice,
                                   !.speed_mode = "custom",
                                   !.batch_size = b, !.max_workers = w]
                ELSE [speed EXCEPT !.state = "selected", !.choice = choice,
                                   !.speed_mode = "conservative"]
    /\ UNCHANGED <<now, diskVars, analyzerVars, saveVars, loadVars, last_saved,
                   opVars, cliVars, webVars, fetchVars, queryVars, requestVars,
                   config>>

\* "if speed_mode == 'custom'": fetch_manager_squads_batch(manager_ids,
\* batch_size, max_workers, 'conservative'); otherwise
\* fetch_manager_squads_batch(manager_ids, speed_mode=speed_mode), with the
\* defaults batch_size=200 and max_workers=5.
SpeedFetch ==
    /\ speed.state = "selected"
    /\ LET used == IF speed.speed_mode = "custom"
                   THEN FetchSettings(speed.batch_size, speed.max_workers,
                                      "conservative")
                   ELSE FetchSettings(200, 5, speed.speed_mode)
       IN config' = [state |-> "used", batch_size |-> used.batch_size,
                     max_workers |-> used.max_workers,
                     delay |-> used.delay, retry_delay |-> used.retry_delay,
                     batches |-> BatchLengths(speed.n, used.batch_size)]
    /\ speed' = [speed EXCEPT !.state = "fetched"]
    /\ UNCHANGED <<now, diskVars, analyzerVars, saveVars, loadVars, last_saved,
                   opVars, cliVars, webVars, fetchVars, queryVars, requestVars>>

\* A session that has the league's member list and is about to fetch.
InitSpeed ==
    /\ now = 0
    /\ cache_file = [k \in Keys |-> Absent]
    /\ info_file = [k \in Keys |-> Absent]
    /\ manager_squads = EmptySquads
    /\ league_data = NoLeague
    /\ current_league_id = NoLeagueId
    /\ InitIdle
    /\ CliIdle
    /\ WebIdle
    /\ FetchIdle
    /\ q_pc = "idle" /\ player_names = <<>> /\ results = NoResults
    /\ analysis = NoResults
    /\ \E n \in LeagueSizes : speed = [NoSpeed EXCEPT !.state = "menu", !.n = n]
    /\ config = NoConfig
    /\ reqs = NoRequests /\ standings = NoStandings

NextSpeed ==
    \/ \E choice \in {"1", "2", "3", "4"} : SpeedSelect(choice, TRUE, 0, 0)
    \/ \E valid \in BOOLEAN, b \in CustomBatchSizes, w \in CustomWorkers :
          SpeedSelect("5", valid, b, w)
    \/ SpeedFetch

SpecSpeed == InitSpeed /\ [][NextSpeed]_vars

\* C24: the fetch runs with the settings chosen: custom values b and w give
\* batches of b members (the last one the rest) and w workers, and a preset
\* gives its own values.
C24_ProfileAsSelected ==
    config.state = "used"
    => /\ speed.speed_mode = "custom"
          => /\ config.batch_size = speed.batch_size
             /\ config.max_workers = speed.max_workers
             /\ \A k \in 1..Len(config.batches) :
                   config.batches[k] <= speed.batch_size
       /\ speed.speed_mode \in DOMAIN speed_configs
          => /\ config.batch_size = speed_configs[speed.speed_mode].batch_size
             /\ config.max_workers = speed_configs[speed.speed_mode].max_workers

\* C25: a failure of one member's task (a request that fails, retries that
\* run out, an exception) aborts neither its batch nor the run: while the
\* fetch runs every member of a batch already left was requested at least
\* once, and when the fetch returns every member id of the input was.
C25_EveryMemberAttempted ==
    /\ f_pc \in {"batch", "running", "sleep"}
       => \A i \in 1..Len(f_ids) : i <= f_i => requests[f_ids[i]] >= 1
    /\ f_pc = "returned"
       => \A m \in Range(f_ids) : requests[m] >= 1

\* C25's case: the fetch has returned; a member of the first batch ran out of
\* retries on an exception, and a member of the same batch and a member of a
\* later batch were requested all the same.
C25_Witness ==
    /\ f_pc = "returned"
    /\ Len(f_ids) > BatchSize
    /\ requests[f_ids[1]] = max_retries
    /\ f_ids[1] \notin f_got
    /\ requests[f_ids[2]] >= 1
    /\ requests[f_ids[Len(f_ids)]] >= 1
    /\ \E j \in DOMAIN tasks : tasks[j].last = "exception"

\* ------------------------------------------- one cache record per version

\* gameweek is None.
NoGameweek == 0

\* A file name that leaves the gameweek out.
get_cache_filename_unversioned(l, gameweek) ==
    "league_" \o ToString(l) \o ".pkl"

\* get_cache_filename: f"league_{league_id}_gw_{gameweek}.pkl" in the cache
\* directory, the current gameweek standing in for None.
get_cache_filename(l, gameweek) ==
    LET gw == IF gameweek = NoGameweek THEN current_gw ELSE gameweek
    IN "league_" \o ToString(l) \o "_gw_" \o ToString(gw) \o ".pkl"

\* get_cache_info_filename: f"league_{league_id}_gw_{gameweek}_info.json".
get_cache_info_filename(l, gameweek) ==
    LET gw == IF gameweek = NoGameweek THEN current_gw ELSE gameweek
    IN "league_" \o ToString(l) \o "_gw_" \o ToString(gw)
           \o "_info.json"

\* The two files of a key.
FilesOf(key) ==
    {get_cache_filename(key[1], key[2]),
     get_cache_info_filename(key[1], key[2])}

\* The keys saved and loaded: two gameweeks of one league, and one gameweek of
\* two leagues.
VersionKeys == {<<1, 1>>, <<1, 11>>, <<11, 1>>}
VersionSquads ==
    {[m \in {1} |-> <<10, 20>>],
     [m \in {1, 2} |-> IF m = 1 THEN <<10, 30>> ELSE <<10, 20>>]}

InitVersions ==
    /\ now = 0
    /\ cache_file = [k \in VersionKeys |-> Absent]
    /\ info_file = [k \in VersionKeys |-> Absent]
    /\ manager_squads \in VersionSquads
    /\ league_data = League(LeagueMembers(1))
    /\ current_league_id = NoLeagueId
    /\ save_pc = "idle" /\ save_key = NoKey /\ cache_info = None
    /\ save_ret = "None" /\ save_prev = None /\ save_retry = FALSE
    /\ last_load = None
    /\ last_saved = [k \in VersionKeys |-> None]
    /\ op_pc = "menu" /\ op_key = NoKey /\ op_answer = "none"
    /\ cache_dir = TRUE
    /\ CliIdle
    /\ WebIdle
    /\ FetchIdle
    /\ QueryIdle

NextVersions ==
    \/ \E s \in VersionSquads : CacheHold(s, League(LeagueMembers(1)))
    \/ \E k \in VersionKeys : CacheSave(k)
    \/ SaveStep
    \/ SaveRaise
    \/ \E k \in VersionKeys : CacheLoad(k, TRUE, "y")

SpecVersions == InitVersions /\ [][NextVersions]_vars

\* C26: two keys that differ in league or in gameweek name different files,
\* and a step of a save changes no file of a key whose files are not the ones
\* being written: such a key's payload and metadata stay as they were, and a
\* record that could be loaded can still be loaded, with the same rosters.
C26_VersionsIndependent ==
    [][/\ \A k1, k2 \in VersionKeys :
              k1 # k2 => FilesOf(k1) \cap FilesOf(k2) = {}
       /\ \A k \in VersionKeys :
              FilesOf(k) \cap FilesOf(save_key) = {}
              => /\ cache_file'[k] = cache_file[k]
                 /\ info_file'[k] = info_file[k]
                 /\ LoadReturns(k, TRUE, "y")
                    => /\ LoadReturns(k, TRUE, "y")'
                       /\ LoadedSquads(k)' = LoadedSquads(k)]_vars

\* C26's case: gameweek 11 of league 1 is being saved, its payload written
\* and its metadata open, while gameweek 1 of league 1 and gameweek 1 of
\* league 11 hold complete records, the first with other rosters than the
\* ones being saved.
C26_Witness ==
    /\ save_key = <<1, 11>>
    /\ save_pc = "dump_info"
    /\ LoadReturns(<<1, 1>>, TRUE, "y")
    /\ LoadReturns(<<11, 1>>, TRUE, "y")
    /\ LoadedSquads(<<1, 1>>) # manager_squads
    /\ cache_file[<<1, 11>>] = PickleNew(manager_squads, league_data)

\* C27: a query reads the rosters held in memory and nothing else: no step of
\* find_player_combinations, of print_results or of the web
\* analyze_combination changes the roster mapping, and none asks the remote
\* API for a member's roster.
C27_QueriesReadOnly ==
    [][/\ manager_squads' = manager_squads
       /\ requests' = requests
       /\ f_pc' = f_pc
       /\ all_squads' = all_squads]_vars

\* C27's case: a web query has been answered with its matches after its
\* refresh of the league standings failed, the rosters still in memory.
C27_Witness ==
    /\ web_pc = "idle"
    /\ analysis.outcome = "results"
    /\ analysis.combination_count > 0
    /\ league_data = NoLeague
    /\ manager_squads \in QuerySquads

\* C28: in the web app, whenever current_league_id is a league and rosters
\* are held in memory, the rosters are those of members of that league; the
\* "already loaded" answer of load_league is given from the rosters of the
\* league asked for.
C28_IdMatchesRosters ==
    /\ (web_pc # "down" /\ current_league_id # NoLeagueId
            /\ manager_squads # EmptySquads)
       => DOMAIN manager_squads \subseteq Range(LeagueMembers(current_league_id))
    /\ web_response = "already_loaded"
       => DOMAIN manager_squads \subseteq Range(LeagueMembers(web_league_id))

\* ------------------------------------ load_league served by request threads

\* The web server answers every request in a thread of its own; the threads
\* share the analyzer and the cache directory, and app.py holds no lock.
ReqKey(t) == <<reqs[t].league_id, current_gw>>
InSave(t) ==
    reqs[t].state \in {"open_cache", "dump_cache", "open_info", "dump_info"}

\* The thread's request, up to the remote call it waits for: the "already
\* loaded" shortcut; a record that loads, answered from the cache unless it
\* lacks the league data and the standings are fetched to save it again; or
\* get_league_info and the member list of the league.
ReqLoadLeague(t, l, ok) ==
    /\ reqs[t].state = "idle"
    /\ LET key == <<l, current_gw>>
           req == [NoRequest EXCEPT !.league_id = l]
       IN IF current_league_id = l /\ manager_squads # EmptySquads
          THEN /\ reqs' = [reqs EXCEPT
                               ![t] = [req EXCEPT !.response = "already_loaded"]]
               /\ UNCHANGED <<analyzerVars, last_load>>
          ELSE IF cache_exists(key) /\ LoadReturns(key, TRUE, "y")
          THEN /\ load_manager_squads_cache(key, TRUE, "y")
               /\ current_league_id' = l
               /\ IF LoadedLeague(key) # NoLeague
                  THEN /\ league_data' = LoadedLeague(key)
                       /\ reqs' = [reqs EXCEPT
                                       ![t] = [req EXCEPT
                                                   !.response = "from_cache"]]
                  ELSE /\ league_data' = LeagueAfterInfo(l, ok)
                       /\ reqs' = [reqs EXCEPT
                                       ![t] = IF ok
                                              THEN [req EXCEPT
                                                        !.state = "open_cache",
                                                        !.response = "upgrade"]
                                              ELSE [req EXCEPT
                                                        !.response = "from_cache"]]
          ELSE /\ IF cache_exists(key)
                  THEN load_manager_squads_cache(key, TRUE, "y")
                  ELSE UNCHANGED <<manager_squads, last_load>>
               /\ league_data' = LeagueAfterInfo(l, ok)
               /\ current_league_id' = LeagueIdAfterInfo(l, ok)
               /\ reqs' = [reqs EXCEPT
                               ![t] = IF ok
                                      THEN [req EXCEPT
                                                !.state = "fetch",
                                                !.manager_ids = LeagueMembers(l)]
                                      ELSE [req EXCEPT
                                                !.response = "error_league"]]
    /\ UNCHANGED <<now, diskVars, saveVars, last_saved, opVars, cliVars,
                   webVars, fetchVars, queryVars, speedVars, standings>>

\* analyzer.fetch_manager_squads_batch(manager_ids): self.manager_squads is
\* the mapping of this thread's fetch; save_manager_squads_cache is entered.
ReqFetch(t, succeeded) ==
    /\ reqs[t].state = "fetch"
    /\ manager_squads' = FetchedSquads(reqs[t].manager_ids, succeeded)
    /\ reqs' = [reqs EXCEPT ![t].state = "open_cache", ![t].response = "loaded"]
    /\ UNCHANGED <<now, diskVars, league_data, current_league_id, saveVars,
                   loadVars, last_saved, opVars, cliVars, webVars, fetchVars,
                   queryVars, speedVars, standings>>

\* with open(cache_file, 'wb') as f, by the thread.
ReqSaveOpenCache(t) ==
    /\ reqs[t].state = "open_cache"
    /\ cache_file' = [cache_file EXCEPT ![ReqKey(t)] = Partial]
    /\ reqs' = [reqs EXCEPT ![t].state = "dump_cache"]
    /\ UNCHANGED <<now, info_file, cache_dir, analyzerVars, saveVars, loadVars,
                   last_saved, opVars, cliVars, webVars, fetchVars, queryVars,
                   speedVars, standings>>

\* pickle.dump(cache_data, f): cache_data refers to the analyzer's fields as
\* they are now; then the thread builds its cache_info.
ReqSaveDumpCache(t) ==
    /\ reqs[t].state = "dump_cache"
    /\ cache_file' = [cache_file EXCEPT
                         ![ReqKey(t)] = PickleNew(manager_squads, league_data)]
    /\ reqs' = [reqs EXCEPT
                    ![t].state = "open_info",
                    ![t].cache_info =
                        CacheInfo(ReqKey(t), manager_squads, league_data, now)]
    /\ UNCHANGED <<now, info_file, cache_dir, analyzerVars, saveVars, loadVars,
                   last_saved, opVars, cliVars, webVars, fetchVars, queryVars,
                   speedVars, standings>>

\* with open(info_file, 'w') as f, by the thread.
ReqSaveOpenInfo(t) ==
    /\ reqs[t].state = "open_info"
    /\ info_file' = [info_file EXCEPT ![ReqKey(t)] = Partial]
    /\ reqs' = [reqs EXCEPT ![t].state = "dump_info"]
    /\ UNCHANGED <<now, cache_file, cache_dir, analyzerVars, saveVars, loadVars,
                   last_saved, opVars, cliVars, webVars, fetchVars, queryVars,
                   speedVars, standings>>

\* json.dump(cache_info, f, indent=2); the save returns and the request is
\* answered.
ReqSaveDumpInfo(t) ==
    /\ reqs[t].state = "dump_info"
    /\ info_file' = [info_file EXCEPT ![ReqKey(t)] = reqs[t].cache_info]
    /\ reqs' = [reqs EXCEPT ![t].state = "idle", ![t].cache_info = None]
    /\ UNCHANGED <<now, cache_file, cache_dir, analyzerVars, saveVars, loadVars,
                   last_saved, opVars, cliVars, webVars, fetchVars, queryVars,
                   speedVars, standings>>

\* The outcomes of the roster fetch: every member's roster, or
\* one member's alone.
RequestSucceeded == {Managers, {NumManagers - 1}}

\* The web app with an empty cache directory and two request threads.
InitRequests ==
    /\ now = 0
    /\ cache_file = [k \in Keys |-> Absent]
    /\ info_file = [k \in Keys |-> Absent]
    /\ manager_squads = EmptySquads
    /\ league_data = NoLeague
    /\ current_league_id = NoLeagueId
    /\ InitIdle
    /\ CliIdle
    /\ WebIdle
    /\ FetchIdle
    /\ QueryIdle

NextRequests ==
    \/ \E t \in RequestThreads, l \in Leagues, ok \in BOOLEAN :
          ReqLoadLeague(t, l, ok)
    \/ \E t \in RequestThreads, succeeded \in RequestSucceeded :
          ReqFetch(t, succeeded)
    \/ \E t \in RequestThreads : ReqSaveOpenCache(t)
    \/ \E t \in RequestThreads : ReqSaveDumpCache(t)
    \/ \E t \in RequestThreads : ReqSaveOpenInfo(t)
    \/ \E t \in RequestThreads : ReqSaveDumpInfo(t)

SpecRequests == InitRequests /\ [][NextRequests]_vars

\* C29: no two load_league requests are inside save_manager_squads_cache for
\* the same league and gameweek at the same time, and once no save of a key
\* is under way the metadata on disk counts the rosters of the payload on
\* disk.
C29_SavesSerialized ==
    /\ \A t1, t2 \in RequestThreads :
           (t1 # t2 /\ InSave(t1) /\ InSave(t2)) => ReqKey(t1) # ReqKey(t2)
    /\ \A k \in Keys :
           (/\ \A t \in RequestThreads : InSave(t) => ReqKey(t) # k
            /\ Readable(cache_file[k]) /\ Readable(info_file[k]))
           => info_file[k].manager_count
                  = Cardinality(DOMAIN cache_file[k].manager_squads)

\* The members whose future the batch loop has been handed so far: those of
\* the batches left and those collected in the current one.
HandedOver ==
    {f_ids[i] : i \in {i \in 1..Len(f_ids) : i <= f_i}}
        \cup {tasks[j].id : j \in {j \in DOMAIN tasks : tasks[j].st = "collected"}}

\* C30: for a list of distinct member ids, the accumulator is decided by
\* which members' fetches succeeded and by nothing else, whatever the order
\* in which the workers start, retry and finish and the futures are handed
\* over: while the fetch runs it holds the roster of every succeeded member
\* handed over so far, and the mapping returned holds the roster of every
\* succeeded member of the input and no other entry.
C30_ResultOrderIndependent ==
    /\ f_pc \in {"batch", "running", "sleep"}
       => all_squads = [m \in HandedOver \cap f_got |-> RemoteRoster(m)]
    /\ f_pc = "returned"
       => /\ all_squads = [m \in Range(f_ids) \cap f_got |-> RemoteRoster(m)]
          /\ manager_squads = all_squads

\* C30's case: two workers run the tasks of one batch; the task submitted
\* second succeeded after a retry and was handed over and inserted while the
\* task submitted first, which has a request behind it, is still running.
C30_Witness ==
    /\ f_pc = "running"
    /\ Len(tasks) >= 2
    /\ tasks[1].st = "running" /\ tasks[1].attempts >= 1
    /\ tasks[2].st = "collected" /\ tasks[2].attempts >= 2
    /\ tasks[2].id \in DOMAIN all_squads
    /\ tasks[1].id \notin DOMAIN all_squads

\* ------------------------------------- the fetch under the settings given

\* The settings the fetch is called with, as (batch_size, max_workers,
\* batch_delay, retry_delay): batches larger than the pool, a pool of one
\* thread, and no delay between the batches.
PoolSettings == {<<3, 2, 100, 100>>, <<2, 1, 50, 50>>, <<2, 2, 0, 10>>}

InitPool ==
    /\ now = 0
    /\ cache_file = [k \in Keys |-> Absent]
    /\ info_file = [k \in Keys |-> Absent]
    /\ manager_squads = EmptySquads
    /\ league_data = NoLeague
    /\ current_league_id = NoLeagueId
    /\ InitIdle
    /\ CliIdle
    /\ WebIdle
    /\ FetchIdle
    /\ q_pc = "idle" /\ player_names = <<>> /\ results = NoResults
    /\ analysis = NoResults
    /\ speed = NoSpeed
    /\ reqs = NoRequests /\ standings = NoStandings
    /\ \E st \in PoolSettings :
          config = [state |-> "used", batch_size |-> st[1],
                    max_workers |-> st[2], delay |-> st[3],
                    retry_delay |-> st[4], batches |-> <<>>]

SpecPool == InitPool /\ [][NextFetch]_vars

\* C31: at no time are more than max_workers calls of a batch running, and a
\* batch is submitted only when every task of the batch before it has
\* finished and been handed over; the tasks in flight are all of one batch.
C31_BoundedAndSequential ==
    [][/\ Cardinality({j \in DOMAIN tasks : tasks[j].st = "running"})
              <= SettingsUsed.max_workers
       /\ Cardinality({j \in DOMAIN tasks' : tasks'[j].st = "running"})
              <= SettingsUsed.max_workers
       /\ (f_pc' = "running" /\ (f_pc # "running" \/ f_i' # f_i))
          => \A j \in DOMAIN tasks : tasks[j].st = "collected"
       /\ f_pc' = "running"
          => \A j \in DOMAIN tasks' :
                 /\ f_i' + j <= Len(f_ids')
                 /\ j <= SettingsUsed.batch_size
                 /\ tasks'[j].id = f_ids'[f_i' + j]]_vars

\* C31's case: a batch of three members runs on a pool of two threads; two
\* calls are running and the third waits for a thread.
C31_Witness ==
    /\ f_pc = "running"
    /\ SettingsUsed.max_workers = 2
    /\ Len(tasks) = 3
    /\ tasks[1].st = "running" /\ tasks[2].st = "running"
    /\ tasks[3].st = "queued"
    /\ requests[tasks[1].id] >= 1

\* The batches of a list: manager_ids[i:i + batch_size] for every i of
\* range(0, len(manager_ids), batch_size), in that order.
Batches(ids, size) ==
    [k \in 1..((Len(ids) + size - 1) \div size) |->
        SubSeq(ids, (k - 1) * size + 1,
               IF k * size < Len(ids) THEN k * size ELSE Len(ids))]
RECURSIVE Concat(_)
Concat(seqs) ==
    IF seqs = <<>> THEN <<>> ELSE Head(seqs) \o Concat(Tail(seqs))
\* The members of the batch submitted, in the order of submission.
TaskIds == [j \in DOMAIN tasks |-> tasks[j].id]

\* C32: the batches of the input list, one after the other, are the input
\* list; every batch but the last has batch_size members and the last has
\* between 1 and batch_size; the batch the loop submits at position i is the
\* batch of that position, and the loop is left past the last position.
C32_BatchesPartitionInput ==
    LET size == SettingsUsed.batch_size
        all == Batches(f_ids, size)
    IN /\ Concat(all) = f_ids
       /\ \A k \in DOMAIN all :
              /\ Len(all[k]) >= 1 /\ Len(all[k]) <= size
              /\ k < Len(all) => Len(all[k]) = size
       /\ f_pc = "running"
          => /\ f_i % size = 0
             /\ f_i \div size + 1 \in DOMAIN all
             /\ TaskIds = all[f_i \div size + 1]
       /\ f_pc = "returned" => f_i = Len(all) * size

\* C32's case: the members are given in reverse order, in more than one
\* batch; the batches before are done and the last batch, shorter than
\* batch_size, runs.
C32_Witness ==
    /\ f_pc = "running"
    /\ f_i > 0
    /\ f_ids[1] > f_ids[2]
    /\ Len(tasks) < SettingsUsed.batch_size
    /\ f_i + Len(tasks) = Len(f_ids)
    /\ TaskIds = <<f_ids[Len(f_ids)]>>
    /\ requests[f_ids[1]] >= 1 /\ requests[f_ids[2]] >= 1

\* C33: when a batch is complete, the success rate reported is the number of
\* rosters held over the number of member ids of the batches submitted so
\* far, the first batch included.
C33_SuccessRateOverAttempted ==
    (f_pc = "running" /\ \A j \in DOMAIN tasks : tasks[j].st = "collected")
    => success_rate
           = (Cardinality(DOMAIN all_squads) * 10000) \div (f_i + Len(tasks))

\* C34: a call that keeps failing pauses half of retry_delay before its
\* first retry and the whole of retry_delay before every retry after it.
C34_EscalatingPause ==
    \A j \in DOMAIN tasks :
        \A k \in DOMAIN tasks[j].slept :
            k < max_retries
            => tasks[j].slept[k] = IF k = 1 THEN SettingsUsed.retry_delay \div 2
                                   ELSE SettingsUsed.retry_delay

\* C35: the loop sleeps when a batch is complete exactly if another batch
\* follows and the delay is not 0; the sleep begins only after every task of
\* the batch was handed over, no task exists or changes during it, the next
\* batch is submitted only after it, and the loop returns without a sleep
\* after the last batch.
C35_SleepBetweenBatches ==
    [][/\ (f_pc = "running" /\ f_pc' # "running")
          => /\ \A j \in DOMAIN tasks : tasks[j].st = "collected"
             /\ f_pc' = "sleep"
                <=> (f_i' < Len(f_ids) /\ SettingsUsed.delay > 0)
       /\ f_pc = "sleep"
          => (f_pc' = "batch" /\ tasks' = tasks /\ requests' = requests
                  /\ f_i < Len(f_ids))
       /\ f_pc' = "sleep" => f_pc = "running"
       /\ (f_pc' = "running" /\ f_pc # "running") => f_pc = "batch"
       /\ f_pc' \in {"returned", "raised"} => f_pc = "batch"]_vars

\* C35's case: with a delay set, the first batch of two is complete and the
\* loop sleeps before the second.
C35_Witness ==
    /\ f_pc = "sleep"
    /\ SettingsUsed.delay > 0
    /\ 0 < f_i /\ f_i < Len(f_ids)
    /\ \A j \in DOMAIN tasks : tasks[j].st = "collected"
    /\ \E j \in DOMAIN tasks : tasks[j].result # NoSquad

\* ------------------------------------------- loads of whatever the disk holds

\* Metadata that reads as JSON and has no 'total_managers_in_league'.
ShortInfo(key) ==
    [state |-> "json", league_id |-> key[1], gameweek |-> key[2],
     manager_count |-> 1, cached_at |-> 0]

\* The files a cache directory can hold for the key: none, a file cut short,
\* a record of either format, metadata with or without every key.
DiskPayloads ==
    {Absent, Partial, LegacyCache,
     PickleNew([m \in {1, 2} |-> <<10, 20>>], League(LeagueMembers(1)))}
DiskInfos(key) == {Absent, Partial, LegacyInfo(key), ShortInfo(key)}

InitLoad ==
    /\ now = 0
    /\ \E payload \in DiskPayloads, info \in DiskInfos(<<1, 1>>) :
          /\ cache_file = [k \in Keys |->
                               IF k = <<1, 1>> THEN payload ELSE Absent]
          /\ info_file = [k \in Keys |->
                              IF k = <<1, 1>> THEN info ELSE Absent]
    /\ manager_squads = EmptySquads
    /\ league_data = NoLeague
    /\ current_league_id = NoLeagueId
    /\ InitIdle
    /\ CliIdle
    /\ WebIdle
    /\ FetchIdle
    /\ QueryIdle

NextLoad ==
    \/ \E s \in SampleSquads, l \in SampleLeagues : CacheHold(s, l)
    \/ \E k \in CacheKeys, sp \in BOOLEAN, a \in {"y", "n"} : CacheLoad(k, sp, a)
    \/ Tick

SpecLoad == InitLoad /\ [][NextLoad]_vars

\* C36: a call of load_manager_squads_cache that returns False leaves the
\* roster mapping and the league snapshot in memory as they were before the
\* call.
C36_FailedLoadKeepsMemory ==
    [][(last_load'.state = "load" /\ last_load' # last_load
            /\ ~last_load'.ret)
       => (manager_squads' = manager_squads /\ league_data' = league_data)]_vars

\* C37: a fetch called with an empty list of member ids makes no request and
\* returns the empty mapping; it does not raise.
C37_EmptyListReturnsEmpty ==
    (f_ids = <<>> /\ f_pc \notin {"idle", "batch"})
    => /\ f_pc = "returned"
       /\ all_squads = EmptySquads
       /\ \A m \in Managers : requests[m] = 0

\* ------------------------------- the web app's in-memory standings cache

\* app.py: CACHE_EXPIRY_MINUTES and MAX_CACHED_LEAGUES.
CACHE_EXPIRY_MINUTES == 1440
MAX_CACHED_LEAGUES == 5

\* The cache keys f"{league_id}_{current_gw}" in use, the steps of the clock
\* and the minutes of one step.
MaxStandingsKeys == 6
MaxTicks == 3
TickMinutes == 720
StandingsKeys == 1..MaxStandingsKeys

\* datetime.now(), in minutes.
current_time == standings.ticks * TickMinutes

\* (current_time - timestamp).total_seconds() > CACHE_EXPIRY_MINUTES * 60
IsExpired(timestamp, t) == (t - timestamp) * 60 > CACHE_EXPIRY_MINUTES * 60

\* A choice of the entries with the oldest timestamps.
KeepSetsOldest(timestamps) ==
    {keep \in SUBSET DOMAIN timestamps :
        /\ Cardinality(keep) = MAX_CACHED_LEAGUES
        /\ \A k \in keep, r \in DOMAIN timestamps \ keep :
               timestamps[k] <= timestamps[r]}

\* keys_to_keep: the first MAX_CACHED_LEAGUES keys of cache_timestamps sorted
\* by timestamp, newest first; which of several entries of one timestamp come
\* first is left open.
KeepSets(timestamps) ==
    {keep \in SUBSET DOMAIN timestamps :
        /\ Cardinality(keep) = MAX_CACHED_LEAGUES
        /\ \A k \in keep, r \in DOMAIN timestamps \ keep :
               timestamps[k] >= timestamps[r]}

Restrict(f, S) == [x \in DOMAIN f \cap S |-> f[x]]

\* league_standings_cache[cache_key] = league_standings;
\* cache_timestamps[cache_key] = datetime.now(): load_league and
\* analyze_combination store the standings of a league.
StandingsPut(cache_key) ==
    /\ standings' =
           [league_standings_cache |->
                standings.league_standings_cache \cup {cache_key},
            cache_timestamps |->
                [k \in DOMAIN standings.cache_timestamps \cup {cache_key} |->
                    IF k = cache_key THEN current_time
                    ELSE standings.cache_timestamps[k]],
            ticks |-> standings.ticks, cleaned |-> FALSE]
    /\ UNCHANGED <<now, diskVars, analyzerVars, saveVars, loadVars, last_saved,
                   opVars, cliVars, webVars, fetchVars, queryVars, speedVars,
                   reqs>>

\* cleanup_expired_cache(): the expired keys are popped from both dicts;
\* then, if league_standings_cache still holds more than MAX_CACHED_LEAGUES
\* entries, every key of it that is not in keys_to_keep is popped from both.
cleanup_expired_cache ==
    LET expired_keys ==
            {k \in DOMAIN standings.cache_timestamps :
                IsExpired(standings.cache_timestamps[k], current_time)}
        cache == standings.league_standings_cache \ expired_keys
        timestamps ==
            Restrict(standings.cache_timestamps,
                     DOMAIN standings.cache_timestamps \ expired_keys)
    IN /\ IF Cardinality(cache) > MAX_CACHED_LEAGUES
          THEN \E keys_to_keep \in KeepSets(timestamps) :
                  LET keys_to_remove == cache \ keys_to_keep
                  IN standings' =
                         [league_standings_cache |-> cache \ keys_to_remove,
                          cache_timestamps |->
                              Restrict(timestamps,
                                       DOMAIN timestamps \ keys_to_remove),
                          ticks |-> standings.ticks, cleaned |-> TRUE]
          ELSE standings' =
                   [league_standings_cache |-> cache,
                    cache_timestamps |-> timestamps,
                    ticks |-> standings.ticks, cleaned |-> TRUE]
       /\ UNCHANGED <<now, diskVars, analyzerVars, saveVars, loadVars,
                      last_saved, opVars, cliVars, webVars, fetchVars,
                      queryVars, speedVars, reqs>>

\* The clock of the web app moves on.
StandingsTick ==
    /\ standings.ticks < MaxTicks
    /\ standings' = [standings EXCEPT !.ticks = @ + 1, !.cleaned = FALSE]
    /\ UNCHANGED <<now, diskVars, analyzerVars, saveVars, loadVars, last_saved,
                   opVars, cliVars, webVars, fetchVars, queryVars, speedVars,
                   reqs>>

InitStandings ==
    /\ now = 0
    /\ cache_file = [k \in Keys |-> Absent]
    /\ info_file = [k \in Keys |-> Absent]
    /\ manager_squads = EmptySquads
    /\ league_data = NoLeague
    /\ current_league_id = NoLeagueId
    /\ InitIdle
    /\ CliIdle
    /\ WebIdle
    /\ FetchIdle
    /\ QueryIdle

NextStandings ==
    \/ \E cache_key \in StandingsKeys : StandingsPut(cache_key)
    \/ cleanup_expired_cache
    \/ StandingsTick

SpecStandings == InitStandings /\ [][NextStandings]_vars

\* C38: when cleanup_expired_cache returns, no entry is older than
\* CACHE_EXPIRY_MINUTES, at most MAX_CACHED_LEAGUES entries are held, the two
\* dicts have the same keys, every entry held was held before with the same
\* timestamp, as many entries are held as the limit allows of those not
\* expired, and no entry removed is more recent than an entry held.
C38_CleanupBoundsTheCache ==
    [][standings'.cleaned
       => LET old == standings.cache_timestamps
              new == standings'.cache_timestamps
              t == standings'.ticks * TickMinutes
              live == {k \in DOMAIN old : t - old[k] <= CACHE_EXPIRY_MINUTES}
          IN /\ \A k \in DOMAIN new : t - new[k] <= CACHE_EXPIRY_MINUTES
             /\ Cardinality(standings'.league_standings_cache)
                    <= MAX_CACHED_LEAGUES
             /\ standings'.league_standings_cache = DOMAIN new
             /\ \A k \in DOMAIN new : k \in DOMAIN old /\ new[k] = old[k]
             /\ Cardinality(DOMAIN new)
                    = (IF Cardinality(live) > MAX_CACHED_LEAGUES
                       THEN MAX_CACHED_LEAGUES ELSE Cardinality(live))
             /\ \A k \in DOMAIN new, r \in DOMAIN old \ DOMAIN new :
                    old[r] <= new[k]]_vars

\* C38's case: cleanup_expired_cache has returned with MAX_CACHED_LEAGUES
\* entries of different ages, having dropped the oldest of six.
C38_Witness ==
    /\ standings.cleaned
    /\ Cardinality(standings.league_standings_cache) = MAX_CACHED_LEAGUES
    /\ standings.ticks >= 2
    /\ \E k1, k2 \in DOMAIN standings.cache_timestamps :
           standings.cache_timestamps[k1] < standings.cache_timestamps[k2]
    /\ \A k \in DOMAIN standings.cache_timestamps :
           standings.cache_timestamps[k] > 0

\* C39: cached_at is the time the rosters of a record were fetched: the
\* save of the one-time upgrade, which fetches no roster, writes the
\* cached_at the record had when the save began, so that a record that was
\* stale before the upgrade is stale after it.
C39_UpgradeKeepsCachedAt ==
    [][(/\ web_pc = "saving_upgrade"
        /\ save_pc = "dump_info"
        /\ save_pc' = "idle"
        /\ Readable(save_prev.info)
        /\ Readable(info_file'[save_key]))
       => /\ info_file'[save_key].cached_at = save_prev.info.cached_at
          /\ IsStale(save_prev.info, now)
                 => IsStale(info_file'[save_key], now')]_vars

\* C40: within a run, no request is made for a member after a request for
\* that member has returned a roster, the roster of the finished task is the
\* one that request returned, and no member is requested more than
\* max_retries (3) times.
C40_StopsAtFirstSuccess ==
    [][\A m \in Managers :
          /\ requests'[m] <= max_retries
          /\ (m \in f_got /\ m \in f_got') => requests'[m] = requests[m]
          /\ \A j \in DOMAIN tasks' :
                 (tasks'[j].id = m /\ m \in f_got' /\ m \notin f_got)
                 => /\ tasks'[j].st = "done"
                    /\ tasks'[j].result = get_manager_squad(m, "ok")]_vars

\* C40's case: in one batch a member's first request returned the roster
\* and the task has ended there, while another member's second request did
\* after a first one that returned nothing.
C40_Witness ==
    /\ f_pc = "running"
    /\ \E j, k \in DOMAIN tasks :
          /\ tasks[j].st \in {"done", "collected"}
          /\ tasks[j].id \in f_got
          /\ tasks[j].attempts = 1
          /\ requests[tasks[j].id] = 1
          /\ tasks[k].st \in {"done", "collected"}
          /\ tasks[k].id \in f_got
          /\ tasks[k].attempts = 2
          /\ requests[tasks[k].id] = 2
          /\ tasks[k].slept # <<>>
====
